---- MODULE Spec2Model ----
(***************************************************************************)
(* The five-firm supply-chain simulation engine: the purchase order        *)
(* (src/PO.py), the firm protocol and its role specialisations             *)
(* (src/Firm.py) and the time-stepped orchestrator (src/Simulation.py).    *)
(*                                                                         *)
(* One run of Simulation.runSimulation is a sequential program; `phase'    *)
(* and `agent' are its program counter.  A PO is a record of the arena     *)
(* `pos' (pos[id + 1] is the PO whose id is id); every list of POs holds   *)
(* ids, so a flag set through one list is read through all of them.        *)
(* Floats of the configuration (alpha, the wholesaler profile, the shock    *)
(* rows, the wholesaler's returns) are kept as exact fractions             *)
(* <<numerator, denominator>>; int() is truncation toward zero.  For the   *)
(* values drawn here Python's float arithmetic followed by int() gives the *)
(* same integers.                                                          *)
(*                                                                         *)
(* Specifications: Spec (bounded configurations, no shocks), SpecScenarioA *)
(* (constant demand 100 over 20 periods), SpecShocks (shock schedules),    *)
(* SpecReturns (the wholesaler's return window over five periods),         *)
(* SpecWithCosts (createDemandPO as shipped), SpecReset (two iterations of *)
(* an experiment over the same firms), SpecLifecycle and FairLifecycle     *)
(* (four-period runs under uniform and mixed delays) and SpecUpdatePO      *)
(* (PO.updatePO applied to the seeded registry), SpecDeepShocks (shocks    *)
(* below -100%) and SpecSetPortfolio (Wholesaler.setPortfolio applied to   *)
(* the wholesaler as constructed).                                         *)
(*                                                                         *)
(* Outside the modelled state: the write-only lists producedPos and        *)
(* shippedPos, Wholesaler._historicalPortfolio, and the logistics cost     *)
(* accounting of createDemandPO (Simulation.py 464-493), which the action  *)
(* CreateDemandPO leaves out and CreateDemandPOWithCosts includes.         *)
(***************************************************************************)
EXTENDS Integers, Sequences, FiniteSets, TLC

\* ---- bounds of the model ------------------------------------------------
RunTime == 2

HistoryTime == 2

MaxShipDelay == 2

DemandMu == 2

MaxDemand == 5

\* ---- program constants --------------------------------------------------
NumAgents == 5

Unset == -99

External == -99

LedgerCols == 18

Firms == 0 .. (NumAgents - 1)

\* Experiment.createFirms: the fixed role graph
supplierList(f) ==
    CASE f = 0 -> <<1>>
      [] f = 1 -> <<2, 3>>
      [] f = 2 -> <<4>>
      [] f = 3 -> <<4>>
      [] OTHER -> <<External>>

IsWholesaler(f) == f = 1

IsManufacturer(f) == f = 2 \/ f = 3

IsRawMaterials(f) == f = 4

\* ---- arithmetic helpers --------------------------------------------------
Max(a, b) == IF a >= b THEN a ELSE b

Min(a, b) == IF a <= b THEN a ELSE b

\* Python int(num / den) for den > 0: truncation toward zero
Trunc(num, den) == IF num >= 0 THEN num \div den ELSE -((-num) \div den)

\* int(x * (p[1] / p[2]))
TruncMul(x, p) == Trunc(x * p[1], p[2])

\* numpy indexing: a negative index counts from the end of the array
Wrap(i, n) == IF i < 0 THEN i + n ELSE i

Range(s) == {s[k] : k \in 1 .. Len(s)}

RECURSIVE SumSeq(_)
SumSeq(s) == IF s = <<>> THEN 0 ELSE Head(s) + SumSeq(Tail(s))

\* the orderings random.shuffle can leave a list of distinct ids in
Perms(q) == {p \in [1 .. Len(q) -> Range(q)] : Range(p) = Range(q)}

\* ---- configurations ------------------------------------------------------
\* Configs: 'Uniform' accepts shipDelayValue <= historyTime + 1, 'Varied'
\* accepts max(shipDelayList) <= historyTime; the varied lists explored give
\* the wholesaler one delay and the other four firms another.
ShipDelayLists ==
    {[f \in Firms |-> d] : d \in 0 .. Min(MaxShipDelay, HistoryTime + 1)}
    \cup {[f \in Firms |-> IF f = 1 THEN a ELSE b] :
             a \in 0 .. Min(MaxShipDelay, HistoryTime),
             b \in 0 .. Min(MaxShipDelay, HistoryTime)}

\* alpha (uniform): 0 or 0.5
Alphas == {<<0, 1>>, <<1, 2>>}

SmoothingValues == {1, 2}

\* wholesalerProfile: [0.5, 0.5] or [1, 0]
WholesalerProfiles == {<< <<1, 2>>, <<1, 2>> >>, << <<1, 1>>, <<0, 1>> >>}

\* values the demand draw max(0, int(normal(mu, std))) is taken from
Demands == {0, DemandMu, MaxDemand}

VARIABLES
    runTime,            \* Simulation.runTime
    historyTime,        \* Simulation.historyTime
    demandMu,           \* Simulation.demandMu
    shocks,             \* Simulation.shocks, a list of <<period, fraction>>
    sampledDemand,      \* the draws max(0, int(sample_normal(mu, std))), by slot
    shipDelay,          \* Simulation.shipDelay / Firm._shipDelay, per firm
    alpha,              \* Firm._alpha (uniform), a fraction
    smoothingValue,     \* Simulation.smoothingValue
    wholesalerProfile,  \* Simulation.wholesalerProfile, the configured weights
    wholesalerProfileOption,     \* Wholesaler.wholesalerProfileOption
    historicalReturnRuleOption,  \* Wholesaler._historicalReturnRuleOption
    numTimePeriodsForCalc,       \* Wholesaler._numTimePeriodsForCalc
    demandArray,        \* Simulation._demandArray, index 0 .. TotalTime-1
    iteration,          \* Experiment.run: the loop variable i
    timePeriod,         \* Simulation._timePeriod
    timeIndex,          \* Simulation._timeIndex
    phase,              \* position in runSimulation
    agent,              \* the firm the loop of runSimulation is at
    failure,            \* "none", or the exception that ended the run
    pos,                \* every PO ever created, by id
    activePoList,       \* Simulation._activePoList
    closedPoList,       \* Simulation._closedPoList
    firm,               \* per firm: the Firm object's fields
    ordersBySupplier,   \* Wholesaler._ordersBySupplier
    fulfilledBySupplier, \* Wholesaler._fulfilledBySupplier
    portfolioWeights,   \* Wholesaler.wholesalerProfile, the weights in use
    returnBySupplier,   \* Wholesaler._returnBySupplier, fractions <<num, den>>
    returnBySupplierForCalc  \* Wholesaler._returnBySupplierForCalc: a slice
                        \* (view) of returnBySupplier or an array of its own

\* the configuration and the demand series of the experiment
simCfgVars == <<runTime, historyTime, demandMu, shocks, sampledDemand,
                shipDelay, alpha, smoothingValue, wholesalerProfile,
                wholesalerProfileOption, historicalReturnRuleOption,
                numTimePeriodsForCalc, demandArray>>

\* what no step of a run changes
cfgVars == <<simCfgVars, iteration>>

returnVars == <<returnBySupplier, returnBySupplierForCalc>>

vars == <<runTime, historyTime, demandMu, shocks, sampledDemand, shipDelay,
          alpha, smoothingValue, wholesalerProfile, wholesalerProfileOption,
          historicalReturnRuleOption, numTimePeriodsForCalc, demandArray,
          iteration, timePeriod, timeIndex, phase, agent, failure, pos, activePoList,
          closedPoList, firm, ordersBySupplier, fulfilledBySupplier,
          portfolioWeights, returnBySupplier, returnBySupplierForCalc>>

\* Firm.__init__ / Simulation: the length of the per-period arrays
TotalTime == runTime + historyTime

\* ---- purchase orders -----------------------------------------------------
\* PO.__init__
NewPO(id, customer, supplier, orderAmt, orderTime) ==
    [id |-> id, customer |-> customer, supplier |-> supplier,
     orderAmt |-> orderAmt, orderTime |-> orderTime,
     fulfilledAmt |-> Unset, fulfilledTime |-> Unset, arrivalTime |-> Unset,
     closed |-> FALSE, customerClosed |-> FALSE, supplierClosed |-> FALSE]

PoOf(id) == pos[id + 1]

\* PO.closePO: the PO closes iff both sides have closed it
\* a closePO that looks at the supplier side only
closePO_supplierOnly(po) == po.supplierClosed

closePO(po) == po.supplierClosed /\ po.customerClosed

\* PO.updatePO(params): every key that is present is written, whatever the
\* value; there is no comparison with orderAmt
updatePO(po, params) ==
    [po EXCEPT
        !.fulfilledAmt = IF "fulfilledAmt" \in DOMAIN params
                         THEN params.fulfilledAmt ELSE @,
        !.fulfilledTime = IF "fulfilledTime" \in DOMAIN params
                          THEN params.fulfilledTime ELSE @,
        !.arrivalTime = IF "arrivalTime" \in DOMAIN params
                        THEN params.arrivalTime ELSE @]

\* ---- seeding of the pre-run history --------------------------------------
\* Firm.calculateHistoricalDemand / Manufacturer.calculateHistoricalDemand
calculateHistoricalDemand(f, wp) ==
    IF f = 2 THEN Max(0, TruncMul(demandMu, wp[1]))
    ELSE IF f = 3 THEN Max(0, TruncMul(demandMu, wp[2]))
    ELSE demandMu

\* Wholesaler.calculateWipOrder
calculateWipOrder(amount, wp) ==
    <<Max(0, TruncMul(amount, wp[1])), Max(0, TruncMul(amount, wp[2]))>>

\* a seeded PO: shipped at shipDate, arriving shipDate + the customer's delay
HistoricalPo(customer, supplier, amt, shipDate, sd) ==
    [NewPO(0, customer, supplier, amt, shipDate) EXCEPT
        !.arrivalTime = shipDate + sd[customer],
        !.fulfilledTime = shipDate,
        !.fulfilledAmt = amt,
        !.supplierClosed = TRUE]

\* Simulation.createHistoricalPos, the POs of one agent in creation order
HistoricalPosOf(f, sd, wp) ==
    IF IsWholesaler(f)
    THEN [k \in 1 .. 2 * sd[f] |->
            HistoricalPo(f, supplierList(f)[((k - 1) % 2) + 1],
                         calculateWipOrder(demandMu, wp)[((k - 1) % 2) + 1],
                         -(((k - 1) \div 2) + 1), sd)]
    ELSE [k \in 1 .. sd[f] |->
            HistoricalPo(f, supplierList(f)[1],
                         IF IsManufacturer(f)
                         THEN calculateHistoricalDemand(f, wp)
                         ELSE Max(0, Trunc(demandMu, Len(supplierList(f)))),
                         -k, sd)]

\* (the wholesaler splits with the weights it holds, agent.calculateWipOrder;
\* the manufacturers' amounts come from the configured profile wp)
createHistoricalPos(sd, wp, weights) ==
    LET all == HistoricalPosOf(0, sd, wp) \o HistoricalPosOf(1, sd, weights) \o
               HistoricalPosOf(2, sd, wp) \o HistoricalPosOf(3, sd, wp) \o
               HistoricalPosOf(4, sd, wp)
    IN  [k \in 1 .. Len(all) |-> [all[k] EXCEPT !.id = k - 1]]

\* ids of the POs of ps, in order, that satisfy Test
IdsWhere(ps, Test(_)) ==
    LET s == SelectSeq(ps, Test) IN [k \in 1 .. Len(s) |-> s[k].id]

\* Firm.setHistoricalLedger, one historical row
HistoricalLedgerRow(r, hwd, wip, fg, desired, d) ==
    [c \in 0 .. (LedgerCols - 1) |->
        CASE c = 0 -> r - historyTime
          [] c = 1 -> wip
          [] c = 2 -> hwd
          [] c = 3 -> hwd + wip
          [] c = 4 -> hwd
          [] c = 5 -> wip
          [] c = 6 -> hwd
          [] c = 7 -> fg
          [] c = 9 -> hwd
          [] c = 10 -> hwd
          [] c = 11 -> hwd
          [] c = 12 -> hwd
          [] c = 13 -> fg
          [] c = 14 -> hwd * (d - 1)
          [] c = 15 -> desired
          [] c = 16 -> hwd
          [] c = 17 -> hwd
          [] OTHER -> 0]

\* a firm that starts without safety stock
initialWip_empty(hwd, al) == 0

\* Firm.setClassAttributes: the starting stock is the safety share of the
\* weekly demand
initialWip(hwd, al) == TruncMul(hwd, al)

\* Firm.initializeAgent followed by Firm.createHistory
initializeAgent(f, sd, al, wp, seeded) ==
    LET hwd == calculateHistoricalDemand(f, wp)
        desired == Trunc(hwd * (al[2] + al[1]), al[2])
        wip == initialWip(hwd, al)
        fg == 0
    IN  [timePeriod |-> 0,
         timeIndex |-> historyTime,
         wipInventory |-> wip,
         fgInventory |-> fg,
         desiredWipInventory |-> desired,
         productionOrder |-> 0,
         productionQueue |-> <<>>,
         shippingQueue |-> <<>>,
         poList |-> IdsWhere(seeded, LAMBDA po : po.supplier # f /\ po.customer = f),
         customerPoList |-> IdsWhere(seeded, LAMBDA po : po.supplier = f),
         closedCustomerPos |-> <<>>,
         closedSupplierPos |-> <<>>,
         demandForecastArray |->
            [t \in 0 .. (TotalTime + sd[f] - 1) |-> IF t < TotalTime THEN hwd ELSE 0],
         actualizedDemandArray |->
            [t \in 0 .. (TotalTime - 1) |-> IF t < historyTime THEN hwd ELSE 0],
         ledger |->
            [r \in 0 .. (TotalTime - 1) |->
                IF r < historyTime
                THEN HistoricalLedgerRow(r, hwd, wip, fg, desired, sd[f])
                ELSE [c \in 0 .. (LedgerCols - 1) |->
                        IF r = historyTime /\ c = 1 THEN wip
                        ELSE IF r = historyTime /\ c = 7 THEN fg
                        ELSE IF r = historyTime /\ c = 15 THEN desired
                        ELSE 0]]]

\* Wholesaler.setHistoricalReturnArray (orders and fulfilled columns)
InitOrdersBySupplier(wp) ==
    [t \in 0 .. (TotalTime - 1) |->
        IF t < historyTime THEN calculateWipOrder(demandMu, wp) ELSE <<0, 0>>]

InitFulfilledBySupplier(wp) ==
    [t \in 0 .. (TotalTime - 1) |->
        IF t < historyTime
        THEN <<calculateWipOrder(demandMu, wp)[1], calculateWipOrder(demandMu, wp)[1]>>
        ELSE <<0, 0>>]

\* ---- the demand array ------------------------------------------------------
\* a shock is <<time, value>>, both fractions <<num, den>> (the rows of the
\* float array Configs.shocks)

\* timePeriod = int(t + historyTime)
shockSlot(shock) == Trunc(shock[1][1] + historyTime * shock[1][2], shock[1][2])

\* a shock applied on top of what the slot holds
applyShock_relativeToSlot(arr, shock) ==
    [arr EXCEPT ![shockSlot(shock)] = @ + TruncMul(demandMu, shock[2])]

\* one pass of the loop of Simulation.inputShocks: the slot is overwritten
\* with the mean plus the truncated share of the mean
applyShock(arr, shock) ==
    LET shockValue == TruncMul(demandMu, shock[2])
    IN  [arr EXCEPT ![shockSlot(shock)] = demandMu + shockValue]

\* Wholesaler.setHistoricalReturnArray (return column): every historical
\* period returned in full; the run periods start at 0
InitReturnBySupplier ==
    [t \in 0 .. (TotalTime - 1) |->
        IF t < historyTime THEN <<<<1, 1>>, <<1, 1>>>> ELSE <<<<0, 1>>, <<0, 1>>>>]

\* Wholesaler.__init__: the window starts as an array of zeros of its own
InitReturnBySupplierForCalc ==
    [view |-> FALSE, start |-> 0,
     rows |-> [k \in 1 .. numTimePeriodsForCalc |-> <<<<0, 1>>, <<0, 1>>>>]]

\* Simulation.inputShocks: the shocks are written in list order, each one
\* overriding what the slot held; a slot past the end of the array stops the
\* loop with an IndexError
RECURSIVE inputShocks(_, _)
inputShocks(arr, sh) ==
    IF sh = <<>> \/ shockSlot(Head(sh)) \notin DOMAIN arr THEN arr
    ELSE inputShocks(applyShock(arr, Head(sh)), Tail(sh))

\* no shock addresses a slot outside the demand array
shocksInRange(sh) ==
    \A i \in DOMAIN sh : shockSlot(sh[i]) \in 0 .. (TotalTime - 1)

\* Simulation.createDemandArray: demandMu in the historical slots, the draws
\* in the run slots, then the shocks
createDemandArray(sampled, sh) ==
    inputShocks([t \in 0 .. (TotalTime - 1) |->
                    IF t < historyTime THEN demandMu ELSE sampled[t]], sh)

\* Firm.timeZeroSetup writes ledger row timeIndex = historyTime, which
\* exists only when the run has at least one period; otherwise
\* initializeAgents stops with an IndexError
timeZeroInRange == historyTime \in 0 .. (TotalTime - 1)

\* the state after Experiment.createFirms and Simulation.initializeSim, for
\* the configuration the configuration variables hold
initializeSim ==
    /\ demandArray = createDemandArray(sampledDemand, shocks)
    /\ timePeriod = 0
    /\ timeIndex = historyTime
    /\ phase = "createDemandPO"
    /\ agent = 0
    /\ failure = IF ~timeZeroInRange THEN "timeZeroIndex"
                 ELSE IF ~shocksInRange(shocks) THEN "shockIndex"
                 ELSE "none"
    /\ pos = createHistoricalPos(shipDelay, wholesalerProfile, wholesalerProfile)
    /\ activePoList = [k \in 1 .. Len(pos) |-> k - 1]
    /\ closedPoList = <<>>
    /\ firm = [f \in Firms |->
                 initializeAgent(f, shipDelay, alpha, wholesalerProfile, pos)]
    /\ ordersBySupplier = InitOrdersBySupplier(wholesalerProfile)
    /\ fulfilledBySupplier = InitFulfilledBySupplier(wholesalerProfile)
    /\ portfolioWeights = wholesalerProfile
    /\ returnBySupplier = InitReturnBySupplier
    /\ returnBySupplierForCalc = InitReturnBySupplierForCalc

\* the wholesaler settings Configs defaults to, with the longest window the
\* history allows
DefaultWholesaler ==
    /\ wholesalerProfileOption = "Default"
    /\ historicalReturnRuleOption = 3
    /\ numTimePeriodsForCalc = historyTime

\* runs without shocks over the bounded configurations
Init ==
    /\ runTime = RunTime
    /\ historyTime = HistoryTime
    /\ demandMu = DemandMu
    /\ shocks = <<>>
    /\ sampledDemand \in [HistoryTime .. (HistoryTime + RunTime - 1) -> Demands]
    /\ shipDelay \in ShipDelayLists
    /\ alpha \in Alphas
    /\ smoothingValue \in SmoothingValues
    /\ wholesalerProfile \in WholesalerProfiles
    /\ DefaultWholesaler
    /\ iteration = 0
    /\ initializeSim

\* ---- access helpers -------------------------------------------------------
\* the firm record of f with some fields replaced
SetFirm(f, rec) == [firm EXCEPT ![f] = rec]

\* one ledger cell written: self._ledger[row, col] = v
LedgerSet(led, row, col, v) == [led EXCEPT ![row][col] = v]

OrderAmts(ids) == [k \in 1 .. Len(ids) |-> PoOf(ids[k]).orderAmt]

FulfilledAmts(ids) == [k \in 1 .. Len(ids) |-> PoOf(ids[k]).fulfilledAmt]

\* the loop of runSimulation: what follows the phase of one agent
NextPhase(p) ==
    CASE p = "beginningOfDay" -> "receiveShipments"
      [] p = "receiveShipments" -> "actualizeDemand"
      [] p = "actualizeDemand" -> "production"
      [] p = "production" -> "sendShipments"
      [] p = "sendShipments" -> "updateForecast"
      [] p = "updateForecast" -> "supplyOrders"
      [] p = "supplyOrders" -> "endOfDay"
      [] OTHER -> "beginningOfDay"

Running(p) == failure = "none" /\ phase = p

\* ---- Simulation.createDemandPO -------------------------------------------
\* a lookup by period number instead of array index
currentDemand_byPeriod(arr, ti, tp) == arr[tp]

\* the demand createDemandPO picks out of the demand array: the entry whose
\* index is the time index (the array starts at the historical periods)
currentDemand(arr, ti, tp) == arr[ti]

CreateDemandPO ==
    /\ Running("createDemandPO")
    /\ LET newPo == [NewPO(Len(pos), External, 0,
                           currentDemand(demandArray, timeIndex, timePeriod),
                           timePeriod)
                        EXCEPT !.arrivalTime = timePeriod]
       IN  IF timeIndex \in DOMAIN demandArray
           THEN /\ pos' = Append(pos, newPo)
                /\ activePoList' = Append(activePoList, newPo.id)
           ELSE UNCHANGED <<pos, activePoList>>
    /\ phase' = "beginningOfDay"
    /\ agent' = 0
    /\ UNCHANGED <<cfgVars, portfolioWeights, returnVars,
                   timePeriod, timeIndex, failure, closedPoList, firm,
                   ordersBySupplier, fulfilledBySupplier>>

\* Simulation.createDemandPO as shipped, logistics cost accounting included:
\* after the PO is appended, acres_per_truck = 38,000/30,000 binds a tuple,
\* and acres_per_truck * 13889.13 raises a TypeError that ends the run
CreateDemandPOWithCosts ==
    /\ Running("createDemandPO")
    /\ LET newPo == [NewPO(Len(pos), External, 0,
                           currentDemand(demandArray, timeIndex, timePeriod),
                           timePeriod)
                        EXCEPT !.arrivalTime = timePeriod]
       IN  IF timeIndex \in DOMAIN demandArray
           THEN /\ pos' = Append(pos, newPo)
                /\ activePoList' = Append(activePoList, newPo.id)
                /\ failure' = "costTypeError"
                /\ UNCHANGED <<phase, agent>>
           ELSE /\ phase' = "beginningOfDay"
                /\ agent' = 0
                /\ UNCHANGED <<pos, activePoList, failure>>
    /\ UNCHANGED <<cfgVars, portfolioWeights, returnVars,
                   timePeriod, timeIndex, closedPoList, firm,
                   ordersBySupplier, fulfilledBySupplier>>

\* ---- Experiment.run between two iterations --------------------------------
\* Firm.resetFirm does not touch the wholesaler's weights and series;
\* Wholesaler.setHistoricalReturnArray then rewrites the historical rows only
resetSeries(series, seeded) ==
    [t \in DOMAIN series |-> IF t < historyTime THEN seeded[t] ELSE series[t]]

\* Simulation.resetFirms, then a new Simulation and its initializeSim on the
\* same firm objects, with the same demand series.  The POs of the finished
\* run are no longer referenced; the arena starts again with the seeded POs.
ResetFirms ==
    /\ phase = "done"
    /\ failure = "none"
    /\ iteration = 0
    /\ iteration' = iteration + 1
    /\ timePeriod' = 0
    /\ timeIndex' = historyTime
    /\ phase' = "createDemandPO"
    /\ agent' = 0
    /\ pos' = createHistoricalPos(shipDelay, wholesalerProfile, portfolioWeights)
    /\ activePoList' = [k \in 1 .. Len(pos') |-> k - 1]
    /\ closedPoList' = <<>>
    /\ firm' = [f \in Firms |->
                  initializeAgent(f, shipDelay, alpha, wholesalerProfile, pos')]
    /\ ordersBySupplier' =
          resetSeries(ordersBySupplier, InitOrdersBySupplier(portfolioWeights))
    /\ fulfilledBySupplier' =
          resetSeries(fulfilledBySupplier, InitFulfilledBySupplier(portfolioWeights))
    /\ returnBySupplier' = resetSeries(returnBySupplier, InitReturnBySupplier)
    /\ UNCHANGED <<simCfgVars, failure, portfolioWeights, returnBySupplierForCalc>>

\* ---- Firm.beginningOfDay / Wholesaler.beginningOfDay ---------------------
\* the fulfilled row of the previous period after the loop over poList
RECURSIVE LogPreviousFulfilled(_, _, _)
LogPreviousFulfilled(ids, row, t) ==
    IF ids = <<>> THEN row
    ELSE LET po == PoOf(Head(ids))
             newRow == IF po.orderTime # t - 1 THEN row
                       ELSE IF po.supplier = 2 THEN <<po.fulfilledAmt, row[2]>>
                       ELSE IF po.supplier = 3 THEN <<row[1], po.fulfilledAmt>>
                       ELSE row
         IN  LogPreviousFulfilled(Tail(ids), newRow, t)

\* the quotient fulfilled / ordered the wholesaler records, 0 when nothing
\* was ordered
ReturnOf(fulfilled, ordered) ==
    IF ordered = 0 THEN <<0, 1>> ELSE <<fulfilled, ordered>>

\* the return row of the previous period after the loop over poList
RECURSIVE LogPreviousReturn(_, _, _, _)
LogPreviousReturn(ids, row, t, ordered) ==
    IF ids = <<>> THEN row
    ELSE LET po == PoOf(Head(ids))
             newRow == IF po.orderTime # t - 1 THEN row
                       ELSE IF po.supplier = 2
                       THEN <<ReturnOf(po.fulfilledAmt, ordered[1]), row[2]>>
                       ELSE IF po.supplier = 3
                       THEN <<row[1], ReturnOf(po.fulfilledAmt, ordered[2])>>
                       ELSE row
         IN  LogPreviousReturn(Tail(ids), newRow, t, ordered)

\* the rows Wholesaler._returnBySupplierForCalc shows: those of the slice
\* of rbs it is a view of, or its own
windowRows(win, rbs) ==
    IF win.view
    THEN [k \in 1 .. numTimePeriodsForCalc |-> rbs[win.start + k - 1]]
    ELSE win.rows

\* self._returnBySupplier[start:end, :]
sliceFrom(start) == [view |-> TRUE, start |-> start, rows |-> <<>>]

Column(rows, s) == [k \in 1 .. Len(rows) |-> rows[k][s]]

\* a window update that slides over every period, ordered or not
setReturnBySupplierForCalc_alwaysSlides(tIdx, rbs, win) ==
    [rbs |-> rbs, win |-> sliceFrom(tIdx - numTimePeriodsForCalc + 1)]

\* Wholesaler.setReturnBySupplierForCalc(tIdx): the return series and the
\* window after the update for the period at index tIdx
setReturnBySupplierForCalc(tIdx, rbs, win) ==
    LET start == tIdx - numTimePeriodsForCalc + 1
        ordered == ordersBySupplier[tIdx]
        fill == IF historicalReturnRuleOption = 1 THEN <<0, 1>> ELSE <<1, 1>>
    IN  IF historicalReturnRuleOption # 3
        THEN [rbs |-> [rbs EXCEPT ![tIdx] =
                         <<IF ordered[1] = 0 THEN fill ELSE @[1],
                           IF ordered[2] = 0 THEN fill ELSE @[2]>>],
              win |-> sliceFrom(start)]
        ELSE IF ordered[1] # 0 /\ ordered[2] # 0
        THEN [rbs |-> rbs, win |-> sliceFrom(start)]
        ELSE LET old == windowRows(win, rbs)
                 tempArray(s) ==
                     IF ordered[s] = 0 THEN Column(old, s)
                     ELSE Tail(Column(old, s)) \o <<rbs[tIdx][s]>>
             IN  [rbs |-> rbs,
                  win |-> [view |-> FALSE, start |-> 0,
                           rows |-> [k \in 1 .. numTimePeriodsForCalc |->
                                       <<tempArray(1)[k], tempArray(2)[k]>>]]]

BeginningOfDay ==
    /\ Running("beginningOfDay")
    /\ IF IsWholesaler(agent)
       THEN LET ti == firm[agent].timeIndex
                idx == Wrap(ti - 1, TotalTime)
                logged == [returnBySupplier EXCEPT ![idx] =
                             LogPreviousReturn(firm[agent].poList, @,
                                               firm[agent].timePeriod,
                                               ordersBySupplier[idx])]
                updated == IF firm[agent].timePeriod = 0
                           THEN [rbs |-> logged,
                                 win |-> sliceFrom(ti - numTimePeriodsForCalc)]
                           ELSE setReturnBySupplierForCalc(ti - 1, logged,
                                                           returnBySupplierForCalc)
            IN  /\ fulfilledBySupplier' =
                      [fulfilledBySupplier EXCEPT ![idx] =
                          LogPreviousFulfilled(firm[agent].poList, @,
                                               firm[agent].timePeriod)]
                /\ returnBySupplier' = updated.rbs
                /\ returnBySupplierForCalc' = updated.win
       ELSE UNCHANGED <<fulfilledBySupplier, returnVars>>
    /\ phase' = NextPhase(phase)
    /\ UNCHANGED <<cfgVars, portfolioWeights,
                   timePeriod, timeIndex, agent, failure, pos,
                   activePoList, closedPoList, firm, ordersBySupplier>>

\* ---- Simulation.receiveShipments / Firm.receiveWipOrder ------------------
\* Wholesaler.logSupplyPo raises when a PO brings units although the order
\* series holds 0 at the index it looks at
logSupplyPoRaises(po, idx) ==
    \/ po.supplier \notin {2, 3}
    \/ /\ ordersBySupplier[idx][po.supplier - 1] = 0
       /\ po.fulfilledAmt > 0

\* one call of receiveWipOrder per arriving PO, in registry order; st carries
\* the fields the calls write
RECURSIVE ReceiveLoop(_, _, _)
ReceiveLoop(ids, f, st) ==
    IF ids = <<>> \/ st.failure # "none" THEN st
    ELSE LET po == PoOf(Head(ids))
             found == po.id \in Range(firm[f].poList)
             amt == IF found THEN po.fulfilledAmt ELSE 0
             idx == Wrap(firm[f].timeIndex - shipDelay[f], TotalTime)
             logs == IsWholesaler(f) /\ found
             raises == logs /\ logSupplyPoRaises(po, idx)
             s == po.supplier - 1
         IN  ReceiveLoop(Tail(ids), f,
                [wip |-> st.wip + amt,
                 received |-> st.received + amt,
                 closedIds |-> IF found THEN st.closedIds \cup {po.id}
                               ELSE st.closedIds,
                 fbs |-> IF logs /\ ~raises
                         THEN [st.fbs EXCEPT ![idx][s] =
                                 IF ordersBySupplier[idx][s] = 0 THEN 0
                                 ELSE po.fulfilledAmt]
                         ELSE st.fbs,
                 rbs |-> IF logs /\ ~raises /\ ordersBySupplier[idx][s] # 0
                         THEN [st.rbs EXCEPT ![idx][s] =
                                 <<po.fulfilledAmt, ordersBySupplier[idx][s]>>]
                         ELSE st.rbs,
                 calls |-> st.calls + 1,
                 failure |-> IF raises THEN "logSupplyPo" ELSE "none"])

ReceiveShipments ==
    /\ Running("receiveShipments")
    /\ LET f == agent
           ti == firm[f].timeIndex
           arriving == SelectSeq(activePoList,
                          LAMBDA id : /\ PoOf(id).customer = f
                                      /\ PoOf(id).arrivalTime = timePeriod)
           st == ReceiveLoop(arriving, f,
                    [wip |-> firm[f].wipInventory, received |-> 0,
                     closedIds |-> {}, fbs |-> fulfilledBySupplier,
                     rbs |-> returnBySupplier,
                     calls |-> 0, failure |-> "none"])
           led2 == LedgerSet(firm[f].ledger, ti, 2,
                             firm[f].ledger[ti][2] + st.received)
           led3 == IF st.calls > 0 THEN LedgerSet(led2, ti, 3, st.wip) ELSE led2
       IN  /\ firm' = SetFirm(f, [firm[f] EXCEPT !.wipInventory = st.wip,
                                                 !.ledger = led3])
           /\ pos' = [k \in DOMAIN pos |->
                        IF pos[k].id \in st.closedIds
                        THEN [pos[k] EXCEPT !.customerClosed = TRUE]
                        ELSE pos[k]]
           /\ fulfilledBySupplier' = st.fbs
           /\ returnBySupplier' = st.rbs
           /\ failure' = st.failure
    /\ phase' = NextPhase(phase)
    /\ UNCHANGED <<cfgVars, portfolioWeights, returnBySupplierForCalc,
                   timePeriod, timeIndex, agent, activePoList,
                   closedPoList, ordersBySupplier>>

\* ---- Simulation.actualizeDemand / Firm.receiveCustomerDemand -------------
\* Firm.createProductionOrder: the queued amount, capped at the WIP on hand
\* a createProductionOrder without the cap at the WIP on hand
createProductionOrder_uncapped(queuedAmount, wip) == queuedAmount

createProductionOrder(queuedAmount, wip) ==
    IF queuedAmount > wip THEN wip ELSE queuedAmount

\* a match on the supplier alone, whatever the period of the order
isCustomerOrder_anyPeriod(po, f, t) == po.supplier = f

\* the test of the loop of Simulation.actualizeDemand
isCustomerOrder(po, f, t) == po.supplier = f /\ po.orderTime = t

ActualizeDemand ==
    /\ Running("actualizeDemand")
    /\ LET f == agent
           ti == firm[f].timeIndex
           totPos == SelectSeq(activePoList,
                        LAMBDA id : isCustomerOrder(PoOf(id), f, timePeriod))
           amount == SumSeq(OrderAmts(totPos))
           queue == firm[f].productionQueue \o totPos
           productionAmount ==
               createProductionOrder(SumSeq(OrderAmts(queue)), firm[f].wipInventory)
       IN  IF productionAmount < 0
           THEN /\ failure' = "productionOrder"
                /\ firm' = SetFirm(f, [firm[f] EXCEPT
                              !.customerPoList = @ \o totPos,
                              !.productionQueue = queue])
           ELSE /\ failure' = "none"
                /\ firm' = SetFirm(f, [firm[f] EXCEPT
                              !.customerPoList = @ \o totPos,
                              !.productionQueue = queue,
                              !.productionOrder = productionAmount,
                              !.actualizedDemandArray[ti] = @ + amount,
                              !.ledger = LedgerSet(LedgerSet(@, ti, 9, productionAmount),
                                                   ti, 17, amount)])
    /\ phase' = NextPhase(phase)
    /\ UNCHANGED <<cfgVars, portfolioWeights, returnVars,
                   timePeriod, timeIndex, agent, pos, activePoList,
                   closedPoList, ordersBySupplier, fulfilledBySupplier>>

\* ---- Firm.production / Firm.makeProduct -----------------------------------
\* the elif of the production loop: the whole order can be produced
\* the comparison of the elif turned around
canProduceFull_flipped(orderAmt, leftToProduce) == orderAmt >= leftToProduce

canProduceFull(orderAmt, leftToProduce) == orderAmt <= leftToProduce

\* a loop that drops the partial fill
partialAmount_zero(orderAmt, leftToProduce) == 0

\* the else of the production loop: the PO gets what is left to produce
partialAmount(orderAmt, leftToProduce) == leftToProduce

\* the amounts the loop of production gives the POs of q, in queue order
RECURSIVE productionAmounts(_, _)
productionAmounts(q, leftToProduce) ==
    IF q = <<>> THEN <<>>
    ELSE LET orderAmt == PoOf(Head(q)).orderAmt
         IN  IF leftToProduce = 0
             THEN <<0>> \o productionAmounts(Tail(q), leftToProduce)
             ELSE IF canProduceFull(orderAmt, leftToProduce)
             THEN <<orderAmt>> \o productionAmounts(Tail(q), leftToProduce - orderAmt)
             ELSE <<partialAmount(orderAmt, leftToProduce)>> \o productionAmounts(Tail(q), 0)

\* Firm.makeProduct: 1:1 conversion of WIP into finished goods
\* a makeProduct that forgets to take the units out of WIP
makeProductWip_noDecrement(wip, amount) == wip

makeProductWip(wip, amount) == wip - amount

makeProductFg(fg, amount) == fg + amount

\* a production that closes only the POs that received units
productionCloses_onlyIfProduced(amount) == amount > 0

\* production closes every PO of the queue on the supplier side, whatever
\* amount it received
productionCloses(amount) == TRUE

Production ==
    /\ Running("production")
    /\ \E q \in Perms(firm[agent].productionQueue) :
         LET f == agent
             ti == firm[f].timeIndex
             amounts == productionAmounts(q, firm[f].productionOrder)
             produced == SumSeq(amounts)
             given(id) == (CHOOSE k \in 1 .. Len(q) : q[k] = id)
             fg1 == makeProductFg(firm[f].fgInventory, produced)
         IN  IF q # <<>> /\ firm[f].productionOrder < 0
             THEN /\ failure' = "leftToProduce"
                  /\ firm' = SetFirm(f, [firm[f] EXCEPT !.productionQueue = q])
                  /\ pos' = pos
             ELSE /\ failure' = "none"
                  /\ pos' = [k \in DOMAIN pos |->
                               IF pos[k].id \in Range(q)
                               THEN [pos[k] EXCEPT
                                       !.fulfilledAmt = amounts[given(pos[k].id)],
                                       !.fulfilledTime = firm[f].timePeriod,
                                       !.supplierClosed =
                                           @ \/ productionCloses(amounts[given(pos[k].id)])]
                               ELSE pos[k]]
                  /\ firm' = SetFirm(f, [firm[f] EXCEPT
                                !.productionQueue = q,
                                !.shippingQueue = @ \o q,
                                !.wipInventory = makeProductWip(@, produced),
                                !.fgInventory = fg1,
                                !.ledger = LedgerSet(@, ti, 11, fg1)])
    /\ phase' = NextPhase(phase)
    /\ UNCHANGED <<cfgVars, portfolioWeights, returnVars,
                   timePeriod, timeIndex, agent, activePoList,
                   closedPoList, ordersBySupplier, fulfilledBySupplier>>

\* ---- Simulation.sendShipments / Firm.sendCustomerShipments ---------------
\* a shipment that leaves the finished goods on the books
shipmentFg_noDecrement(fg, shippedAmount) == fg

\* the finished goods left after the POs of the shipping queue have gone:
\* every PO takes its fulfilledAmt out of fgInventory
shipmentFg(fg, shippedAmount) == fg - shippedAmount

SendShipments ==
    /\ Running("sendShipments")
    /\ LET f == agent
           ti == firm[f].timeIndex
           queue == firm[f].shippingQueue
           shippedAmount == SumSeq(FulfilledAmts(queue))
       IN  IF queue = <<>>
           THEN UNCHANGED <<pos, firm>>
           ELSE /\ pos' = [k \in DOMAIN pos |->
                             IF pos[k].id \in Range(queue)
                             THEN [pos[k] EXCEPT
                                     !.arrivalTime = timePeriod + shipDelay[f],
                                     !.supplierClosed = TRUE]
                             ELSE pos[k]]
                /\ firm' = SetFirm(f, [firm[f] EXCEPT
                              !.fgInventory = shipmentFg(@, shippedAmount),
                              !.shippingQueue = <<>>,
                              !.ledger = LedgerSet(@, ti, 12, shippedAmount)])
    /\ phase' = NextPhase(phase)
    /\ UNCHANGED <<cfgVars, portfolioWeights, returnVars,
                   timePeriod, timeIndex, agent, failure, activePoList,
                   closedPoList, ordersBySupplier, fulfilledBySupplier>>

\* ---- Simulation.updateForecast / Firm.updateDemandForecast ---------------
\* a calculateFutureDemand that rounds the mean half up
calculateFutureDemand_rounds(smoothing, actual, forecast) ==
    IF smoothing = 1 THEN actual ELSE (actual + forecast + 1) \div 2

\* Firm.calculateFutureDemand
calculateFutureDemand(smoothing, actual, forecast) ==
    IF smoothing = 1 THEN actual ELSE Trunc(actual + forecast, 2)

\* the slots of the forecast array updateDemandForecast writes
forecastSlots(ti, d, len) ==
    (ti + 1) .. ((IF ti + d + 1 >= len THEN len ELSE ti + d + 1) - 1)

UpdateForecast ==
    /\ Running("updateForecast")
    /\ LET f == agent
           ti == firm[f].timeIndex
           newDemand == calculateFutureDemand(smoothingValue,
                           firm[f].actualizedDemandArray[ti],
                           firm[f].demandForecastArray[ti])
           desired == Trunc(newDemand * (alpha[2] + alpha[1]), alpha[2])
           slots == forecastSlots(ti, shipDelay[f], TotalTime + shipDelay[f])
       IN  firm' = SetFirm(f, [firm[f] EXCEPT
                      !.desiredWipInventory = desired,
                      !.ledger = IF ti + 1 < TotalTime
                                 THEN LedgerSet(@, ti + 1, 15, desired) ELSE @,
                      !.demandForecastArray =
                          [t \in DOMAIN @ |-> IF t \in slots THEN newDemand ELSE @[t]]])
    /\ phase' = NextPhase(phase)
    /\ UNCHANGED <<cfgVars, portfolioWeights, returnVars,
                   timePeriod, timeIndex, agent, failure, pos,
                   activePoList, closedPoList, ordersBySupplier,
                   fulfilledBySupplier>>

\* ---- Simulation.supplyOrders / Firm.orderSupplies ------------------------
\* Firm.calculateSalesDuringDelay
calculateSalesDuringDelay(f) ==
    LET d == shipDelay[f]
    IN  SumSeq([k \in 1 .. (d - 1) |->
                  firm[f].demandForecastArray[firm[f].timePeriod + d + (k - 1)]])

\* Firm.calculateSupplyInTransit
calculateSupplyInTransit(f) ==
    LET inTransit == SelectSeq(firm[f].poList,
                        LAMBDA id : /\ PoOf(id).arrivalTime > firm[f].timePeriod
                                    /\ ~PoOf(id).customerClosed)
    IN  SumSeq(FulfilledAmts(inTransit))

\* a calculateSupplyOrder without the floor at 0
calculateSupplyOrder_noFloor(f) ==
    firm[f].desiredWipInventory + calculateSalesDuringDelay(f)
    - calculateSupplyInTransit(f) - firm[f].wipInventory

\* Firm.calculateSupplyOrder
calculateSupplyOrder(f) ==
    Max(0, firm[f].desiredWipInventory + calculateSalesDuringDelay(f)
           - calculateSupplyInTransit(f) - firm[f].wipInventory)

\* a createSupplyOrders whose RawMaterials override forgets to close the
\* extraction order on the supplier side
createSupplyOrders_rawLeftOpen(f, amount, firstId, weights) ==
    LET tp == firm[f].timePeriod
    IN  IF IsWholesaler(f)
        THEN LET orderList == calculateWipOrder(amount, weights)
             IN  [k \in 1 .. 2 |->
                    NewPO(firstId + k - 1, f, supplierList(f)[k], orderList[k], tp)]
        ELSE IF IsRawMaterials(f)
        THEN LET orderAmt == Trunc(amount, Len(supplierList(f)))
             IN  <<[NewPO(firstId, f, supplierList(f)[1], orderAmt, tp) EXCEPT
                      !.fulfilledAmt = orderAmt,
                      !.fulfilledTime = tp,
                      !.arrivalTime = tp + shipDelay[f]]>>
        ELSE [k \in 1 .. Len(supplierList(f)) |->
                NewPO(firstId + k - 1, f, supplierList(f)[k], amount, tp)]

\* Firm.createSupplyOrders and its overrides in Wholesaler and RawMaterials:
\* the POs one order of `amount' units turns into
createSupplyOrders(f, amount, firstId, weights) ==
    LET tp == firm[f].timePeriod
    IN  IF IsWholesaler(f)
        THEN LET orderList == calculateWipOrder(amount, weights)
             IN  [k \in 1 .. 2 |->
                    NewPO(firstId + k - 1, f, supplierList(f)[k], orderList[k], tp)]
        ELSE IF IsRawMaterials(f)
        THEN LET orderAmt == Trunc(amount, Len(supplierList(f)))
             IN  <<[NewPO(firstId, f, supplierList(f)[1], orderAmt, tp) EXCEPT
                      !.fulfilledAmt = orderAmt,
                      !.fulfilledTime = tp,
                      !.arrivalTime = tp + shipDelay[f],
                      !.supplierClosed = TRUE]>>
        ELSE [k \in 1 .. Len(supplierList(f)) |->
                NewPO(firstId + k - 1, f, supplierList(f)[k], amount, tp)]

\* the weights Wholesaler.solveOptimize may hand to setPortfolio: the result
\* of the SLSQP search within Bounds(0, 1), drawn here from the even split and
\* the two one-supplier allocations
solveOptimize == {<<<<1, 2>>, <<1, 2>>>>, <<<<1, 1>>, <<0, 1>>>>, <<<<0, 1>>, <<1, 1>>>>}

\* a chooseSuppliers that optimizes whatever the option says
chooseSuppliers_ignoresOption(option, weights) == solveOptimize

\* Wholesaler.chooseSuppliers: the weights the wholesaler may hold after the
\* call; in Default mode the call changes nothing
chooseSuppliers(option, weights) ==
    IF option = "Optimize" THEN solveOptimize ELSE {weights}

SupplyOrders ==
    /\ Running("supplyOrders")
    /\ \E weights \in IF IsWholesaler(agent)
                       THEN chooseSuppliers(wholesalerProfileOption, portfolioWeights)
                       ELSE {portfolioWeights} :
       LET f == agent
           ti == firm[f].timeIndex
           newOrder == calculateSupplyOrder(f)
           orderList == IF newOrder = 0 THEN <<>>
                        ELSE createSupplyOrders(f, newOrder, Len(pos), weights)
           ids == [k \in 1 .. Len(orderList) |-> orderList[k].id]
       IN  /\ portfolioWeights' = weights
           /\ pos' = pos \o orderList
           /\ activePoList' = activePoList \o ids
           /\ firm' = SetFirm(f, [firm[f] EXCEPT
                         !.poList = @ \o ids,
                         !.ledger = LedgerSet(
                             LedgerSet(@, ti, 14, calculateSupplyInTransit(f)),
                             ti, 6, newOrder)])
           /\ ordersBySupplier' =
                 IF IsWholesaler(f) /\ newOrder # 0
                 THEN [ordersBySupplier EXCEPT
                         ![firm[f].timePeriod + historyTime] =
                             calculateWipOrder(newOrder, weights)]
                 ELSE ordersBySupplier
    /\ phase' = NextPhase(phase)
    /\ UNCHANGED <<cfgVars, returnVars,
                   timePeriod, timeIndex, agent, failure, closedPoList,
                   fulfilledBySupplier>>

\* ---- Simulation.endOfDay / Firm.endOfDay ---------------------------------
\* an endOfDay that keeps the short-shipped POs queued for the next period
endOfDayQueue_keepsShort(q) ==
    SelectSeq(q, LAMBDA id : PoOf(id).fulfilledAmt < PoOf(id).orderAmt)

\* what endOfDay leaves in the production queue
endOfDayQueue(q) == SelectSeq(q, LAMBDA id : ~PoOf(id).supplierClosed)

\* the filter endOfDay remakes customerPoList and poList with
staysLocal(po) == ~po.closed

\* an endOfDay that leaves the firm's counters where they are
advanceClock_stands(c) == c

\* the advance of the firm's period and index counters at the end of endOfDay
advanceClock(c) == c + 1

\* a test that matches the demand PO of the period before
isCurrentDemandPo_previous(po, t) == po.customer = External /\ po.orderTime = t - 1

\* the test of the closing loop of Simulation.endOfDay
isCurrentDemandPo(po, t) == po.customer = External /\ po.orderTime = t

EndOfDay ==
    /\ Running("endOfDay")
    /\ LET f == agent
           F == firm[f]
           ti == F.timeIndex
           wipMaterialsUsed == SumSeq(FulfilledAmts(F.productionQueue))
           row == [c \in 0 .. (LedgerCols - 1) |->
                     CASE c = 4 -> wipMaterialsUsed
                       [] c = 10 -> wipMaterialsUsed
                       [] c = 5 -> F.wipInventory
                       [] c = 13 -> F.fgInventory
                       [] c = 16 -> F.demandForecastArray[ti]
                       [] c = 3 -> IF F.ledger[ti][2] = 0 /\ F.ledger[ti][3] = 0
                                   THEN F.ledger[ti][1]
                                   ELSE F.ledger[ti][3]
                       [] OTHER -> F.ledger[ti][c]]
           led1 == LedgerSet([F.ledger EXCEPT ![ti] = row],
                             historyTime + F.timePeriod, 0, F.timePeriod)
           led2 == IF ti + 1 < TotalTime
                   THEN LedgerSet(LedgerSet(led1, ti + 1, 1, F.wipInventory),
                                  ti + 1, 7, F.fgInventory)
                   ELSE led1
           isClosed(id) == PoOf(id).closed
           notClosed(id) == staysLocal(PoOf(id))
       IN  IF F.wipInventory < 0 \/ F.fgInventory < 0
           THEN /\ failure' = "negInventory"
                /\ UNCHANGED <<firm, pos, phase, agent>>
           ELSE /\ failure' = "none"
                /\ firm' = SetFirm(f, [F EXCEPT
                              !.productionQueue = endOfDayQueue(@),
                              !.ledger = led2,
                              !.closedCustomerPos = @ \o SelectSeq(F.customerPoList, isClosed),
                              !.closedSupplierPos = @ \o SelectSeq(F.poList, isClosed),
                              !.customerPoList = SelectSeq(@, notClosed),
                              !.poList = SelectSeq(@, notClosed),
                              !.timePeriod = advanceClock(@),
                              !.timeIndex = advanceClock(@)])
                /\ pos' = [k \in DOMAIN pos |->
                             IF /\ pos[k].id \in Range(activePoList)
                                /\ isCurrentDemandPo(pos[k], timePeriod)
                             THEN [pos[k] EXCEPT !.customerClosed = TRUE]
                             ELSE pos[k]]
                /\ IF agent = NumAgents - 1
                   THEN phase' = "cleanActivePoList" /\ agent' = agent
                   ELSE phase' = "beginningOfDay" /\ agent' = agent + 1
    /\ UNCHANGED <<cfgVars, portfolioWeights, returnVars,
                   timePeriod, timeIndex, activePoList, closedPoList,
                   ordersBySupplier, fulfilledBySupplier>>

\* ---- Simulation.cleanActivePoList ----------------------------------------
\* a sweep that forgets to remake the active list
staysActive_all(po) == TRUE

\* the filter that remakes the active list after the closing loop
staysActive(po) == ~po.closed

CleanActivePoList ==
    /\ Running("cleanActivePoList")
    /\ LET closes(id) == closePO(PoOf(id))
           stays(id) == staysActive([PoOf(id) EXCEPT !.closed = @ \/ closePO(PoOf(id))])
       IN  /\ pos' = [k \in DOMAIN pos |->
                        IF pos[k].id \in Range(activePoList) /\ closePO(pos[k])
                        THEN [pos[k] EXCEPT !.closed = TRUE]
                        ELSE pos[k]]
           /\ closedPoList' = closedPoList \o SelectSeq(activePoList, closes)
           /\ activePoList' = SelectSeq(activePoList, stays)
    /\ phase' = "advanceTime"
    /\ UNCHANGED <<cfgVars, portfolioWeights, returnVars,
                   timePeriod, timeIndex, agent, failure, firm,
                   ordersBySupplier, fulfilledBySupplier>>

\* ---- Simulation.advanceTime ----------------------------------------------
AdvanceTime ==
    /\ Running("advanceTime")
    /\ timePeriod' = timePeriod + 1
    /\ timeIndex' = timeIndex + 1
    /\ phase' = IF timePeriod + 1 = runTime THEN "done" ELSE "createDemandPO"
    /\ UNCHANGED <<cfgVars, portfolioWeights, returnVars,
                   agent, failure, pos, activePoList, closedPoList,
                   firm, ordersBySupplier, fulfilledBySupplier>>

\* ---- Simulation.runSimulation --------------------------------------------
Next ==
    \/ CreateDemandPO
    \/ BeginningOfDay
    \/ ReceiveShipments
    \/ ActualizeDemand
    \/ Production
    \/ SendShipments
    \/ UpdateForecast
    \/ SupplyOrders
    \/ EndOfDay
    \/ CleanActivePoList
    \/ AdvanceTime

Spec == Init /\ [][Next]_vars

\* Scenario A: constant demand 100 for 20 periods after 10 historical ones,
\* every delay 2, every alpha 0.1, the wholesaler splitting evenly, no shocks
InitScenarioA ==
    /\ runTime = 20 /\ historyTime = 10 /\ demandMu = 100
    /\ shocks = <<>>
    /\ sampledDemand = [t \in 10 .. 29 |-> 100]
    /\ shipDelay = [f \in Firms |-> 2]
    /\ alpha = <<1, 10>>
    /\ smoothingValue \in SmoothingValues
    /\ wholesalerProfile = <<<<1, 2>>, <<1, 2>>>>
    /\ DefaultWholesaler
    /\ iteration = 0
    /\ initializeSim

SpecScenarioA == InitScenarioA /\ [][Next]_vars

\* shock rows Configs accepts: 0 <= time <= runTime
ShockTimes == {<<0, 1>>, <<1, 1>>, <<3, 2>>, <<RunTime, 1>>}

ShockValues == {<<1, 1>>, <<-1, 4>>}

\* schedules Configs accepts: at most runTime rows
ShockSchedules ==
    UNION {[1 .. n -> ShockTimes \X ShockValues] : n \in 0 .. Min(2, RunTime)}

\* runs under a shock schedule
InitShocks ==
    /\ runTime = RunTime
    /\ historyTime = HistoryTime
    /\ demandMu = DemandMu
    /\ shocks \in ShockSchedules
    /\ sampledDemand \in [HistoryTime .. (HistoryTime + RunTime - 1) -> {0, MaxDemand}]
    /\ shipDelay = [f \in Firms |-> 1]
    /\ alpha = <<1, 2>>
    /\ smoothingValue = 1
    /\ wholesalerProfile = <<<<1, 2>>, <<1, 2>>>>
    /\ DefaultWholesaler
    /\ iteration = 0
    /\ initializeSim

SpecShocks == InitShocks /\ [][Next]_vars

\* shock values Configs accepts as well: it checks the period of a shock and
\* the number of rows, never the size of the deviation, so a drop of more than
\* the whole mean passes
DeepShockValues == {<<-1, 4>>, <<-2, 1>>}

DeepShockSchedules ==
    UNION {[1 .. n -> {<<0, 1>>, <<1, 1>>} \X DeepShockValues] : n \in 0 .. 1}

\* runs under a schedule of at most one shock that may exceed -100%
InitDeepShocks ==
    /\ runTime = RunTime
    /\ historyTime = HistoryTime
    /\ demandMu = DemandMu
    /\ shocks \in DeepShockSchedules
    /\ sampledDemand \in [HistoryTime .. (HistoryTime + RunTime - 1) -> {0, MaxDemand}]
    /\ shipDelay = [f \in Firms |-> 1]
    /\ alpha = <<1, 2>>
    /\ smoothingValue = 1
    /\ wholesalerProfile = <<<<1, 2>>, <<1, 2>>>>
    /\ DefaultWholesaler
    /\ iteration = 0
    /\ initializeSim

SpecDeepShocks == InitDeepShocks /\ [][Next]_vars

\* five-period runs over the historical-return rules and window lengths
\* Configs accepts (1 <= numTimePeriodsForCalc <= historyTime)
InitReturns ==
    /\ runTime = 5
    /\ historyTime = HistoryTime
    /\ demandMu = DemandMu
    /\ shocks = <<>>
    /\ sampledDemand \in [HistoryTime .. (HistoryTime + 4) -> {0, MaxDemand}]
    /\ shipDelay = [f \in Firms |-> 1]
    /\ alpha = <<1, 2>>
    /\ smoothingValue = 1
    /\ wholesalerProfile \in WholesalerProfiles
    /\ wholesalerProfileOption = "Default"
    /\ historicalReturnRuleOption \in {1, 2, 3}
    /\ numTimePeriodsForCalc \in 1 .. HistoryTime
    /\ iteration = 0
    /\ initializeSim

SpecReturns == InitReturns /\ [][Next]_vars

\* the configurations of Init and, with them, the run length 0 that Configs
\* accepts as well
InitWithCosts ==
    /\ runTime \in {0, RunTime}
    /\ historyTime = HistoryTime
    /\ demandMu = DemandMu
    /\ shocks = <<>>
    /\ sampledDemand \in [HistoryTime .. (HistoryTime + runTime - 1) -> Demands]
    /\ shipDelay \in ShipDelayLists
    /\ alpha \in Alphas
    /\ smoothingValue \in SmoothingValues
    /\ wholesalerProfile \in WholesalerProfiles
    /\ DefaultWholesaler
    /\ iteration = 0
    /\ initializeSim

\* the shipped engine: the first call of createDemandPO is the last step
NextWithCosts == CreateDemandPOWithCosts

SpecWithCosts == InitWithCosts /\ [][NextWithCosts]_vars

\* experiments of two iterations in Default allocation mode
InitReset ==
    /\ runTime = RunTime
    /\ historyTime = HistoryTime
    /\ demandMu = DemandMu
    /\ shocks = <<>>
    /\ sampledDemand \in [HistoryTime .. (HistoryTime + RunTime - 1) -> Demands]
    /\ shipDelay = [f \in Firms |-> 1]
    /\ alpha = <<1, 2>>
    /\ smoothingValue = 1
    /\ wholesalerProfile \in WholesalerProfiles
    /\ DefaultWholesaler
    /\ iteration = 0
    /\ initializeSim

NextReset == Next \/ ResetFirms

SpecReset == InitReset /\ [][NextReset]_vars

\* four-period runs under uniform and mixed shipping delays of 1 and 2
InitLifecycle ==
    /\ runTime = 4
    /\ historyTime = HistoryTime
    /\ demandMu = DemandMu
    /\ shocks = <<>>
    /\ sampledDemand \in [HistoryTime .. (HistoryTime + 3) -> {0, MaxDemand}]
    /\ shipDelay \in {[f \in Firms |-> 1], [f \in Firms |-> 2],
                      [f \in Firms |-> 1 + (f % 2)]}
    /\ alpha = <<1, 2>>
    /\ smoothingValue = 1
    /\ wholesalerProfile \in WholesalerProfiles
    /\ DefaultWholesaler
    /\ iteration = 0
    /\ initializeSim

SpecLifecycle == InitLifecycle /\ [][Next]_vars

\* the loop of runSimulation always takes its next step
FairLifecycle == SpecLifecycle /\ WF_vars(Next)

\* one call po.updatePO({fulfilledAmt, fulfilledTime}) on a PO of the registry,
\* with the two keys Firm.makeProduct passes and an amount of the caller's
\* choice; the call touches the PO only
RecordFulfilment ==
    /\ failure = "none"
    /\ \A k \in DOMAIN pos : pos[k].fulfilledTime # timePeriod
    /\ \E k \in DOMAIN pos, amount \in 0 .. (MaxDemand + 1) :
          pos' = [pos EXCEPT ![k] =
                    updatePO(@, [fulfilledAmt |-> amount,
                                 fulfilledTime |-> timePeriod])]
    /\ UNCHANGED <<cfgVars, portfolioWeights, returnVars, timePeriod, timeIndex,
                   phase, agent, failure, activePoList, closedPoList, firm,
                   ordersBySupplier, fulfilledBySupplier>>

\* PO.updatePO called on the seeded registry
SpecUpdatePO == Init /\ [][RecordFulfilment]_vars

\* ---- Wholesaler.setPortfolio ----------------------------------------------
\* np.sum(weights) > 1.01, in exact fractions
sumAbove101(w) ==
    100 * (w[1][1] * w[2][2] + w[2][1] * w[1][2]) > 101 * w[1][2] * w[2][2]

\* portfolios a caller may hand to setPortfolio: three that sum to at most 1
\* and two that sum to 2 and to 1.25
PortfolioInputs ==
    {<< <<1, 2>>, <<1, 2>> >>, << <<1, 1>>, <<0, 1>> >>, << <<1, 4>>, <<1, 4>> >>,
     << <<1, 1>>, <<1, 1>> >>, << <<3, 4>>, <<1, 2>> >>}

\* Wholesaler.setPortfolio(profile): the test looks at the weights the
\* wholesaler holds, self.wholesalerProfile, not at the argument; when it
\* passes, the argument is installed
setPortfolio(weights, profile) ==
    IF sumAbove101(weights)
    THEN [raises |-> TRUE, weights |-> weights]
    ELSE [raises |-> FALSE, weights |-> profile]

\* one call of setPortfolio with any of the portfolios
SetPortfolio ==
    /\ failure = "none"
    /\ \E profile \in PortfolioInputs :
          LET call == setPortfolio(portfolioWeights, profile)
          IN  /\ portfolioWeights' = call.weights
              /\ failure' = IF call.raises THEN "setPortfolio" ELSE "none"
    /\ UNCHANGED <<cfgVars, returnVars, timePeriod, timeIndex, phase, agent,
                   pos, activePoList, closedPoList, firm, ordersBySupplier,
                   fulfilledBySupplier>>

\* Wholesaler.setPortfolio called on the wholesaler as constructed
SpecSetPortfolio == Init /\ [][SetPortfolio]_vars

\* ==== properties ==========================================================
AgentPhases == {"beginningOfDay", "receiveShipments", "actualizeDemand",
                "production", "sendShipments", "updateForecast",
                "supplyOrders", "endOfDay"}

\* firm f has finished its production phase of the current period
AfterProduction(f) ==
    \/ phase \in {"cleanActivePoList", "advanceTime"}
    \/ /\ phase \in AgentPhases
       /\ \/ agent > f
          \/ /\ agent = f
             /\ phase \in {"sendShipments", "updateForecast", "supplyOrders", "endOfDay"}

\* firm f has finished its receiveShipments phase of period a
AfterReceive(f, a) ==
    \/ timePeriod > a
    \/ /\ timePeriod = a
       /\ \/ phase \in {"cleanActivePoList", "advanceTime", "done"}
          \/ /\ phase \in AgentPhases
             /\ \/ agent > f
                \/ agent = f /\ phase \notin {"beginningOfDay", "receiveShipments"}

ShortShipped(po) == po.fulfilledAmt # Unset /\ po.fulfilledAmt < po.orderAmt

\* C1: in every reachable state every PO with closed = true has
\* supplierClosed = true and customerClosed = true.
C1_ClosedImpliesBothFlags ==
    \A k \in DOMAIN pos :
        pos[k].closed => (pos[k].supplierClosed /\ pos[k].customerClosed)

\* a sweep has closed a PO while another PO, closed on one side only, stays open
C1_Witness ==
    /\ \E k \in DOMAIN pos : pos[k].closed
    /\ \E k \in DOMAIN pos :
          /\ ~pos[k].closed
          /\ pos[k].supplierClosed
          /\ ~pos[k].customerClosed
    /\ phase = "advanceTime"

\* C2: the registry sweep moves to the closed registry exactly the active POs
\* whose two flags are set and sets closed on them; every other PO stays in
\* the active registry unchanged, no error is raised, and after the sweep no
\* active PO has both flags set.
C2_SweepMovesExactlyTheClosable ==
    [][(phase = "cleanActivePoList" /\ failure = "none") =>
        /\ failure' = "none"
        /\ DOMAIN pos' = DOMAIN pos
        /\ closedPoList' = closedPoList \o
              SelectSeq(activePoList,
                        LAMBDA id : PoOf(id).supplierClosed /\ PoOf(id).customerClosed)
        /\ activePoList' =
              SelectSeq(activePoList,
                        LAMBDA id : ~(PoOf(id).supplierClosed /\ PoOf(id).customerClosed))
        /\ \A k \in DOMAIN pos :
              IF /\ pos[k].id \in Range(activePoList)
                 /\ pos[k].supplierClosed
                 /\ pos[k].customerClosed
              THEN pos'[k] = [pos[k] EXCEPT !.closed = TRUE]
              ELSE pos'[k] = pos[k]
        /\ \A k \in DOMAIN pos' :
              pos'[k].id \in Range(activePoList') =>
                  ~(pos'[k].supplierClosed /\ pos'[k].customerClosed)
      ]_vars

\* a sweep has just archived some POs and left others, closed on the
\* supplier side only, in the active registry
C2_Witness ==
    /\ phase = "advanceTime"
    /\ timePeriod > 0
    /\ \E id \in Range(closedPoList) : PoOf(id).closed /\ PoOf(id).orderTime = timePeriod - 1
    /\ \E id \in Range(activePoList) :
          PoOf(id).supplierClosed /\ ~PoOf(id).customerClosed /\ ~PoOf(id).closed

\* C3: every PO whose fulfilledAmount is set satisfies
\* 0 <= fulfilledAmount <= orderAmount (seeded, consumer-demand and supply POs).
C3_FulfilledWithinOrder ==
    \A k \in DOMAIN pos :
        pos[k].fulfilledAmt # Unset =>
            (0 <= pos[k].fulfilledAmt /\ pos[k].fulfilledAmt <= pos[k].orderAmt)

\* a seeded PO, a consumer-demand PO and a supply PO have been fulfilled, the
\* supply PO partially
C3_Witness ==
    /\ \E k \in DOMAIN pos : pos[k].orderTime < 0 /\ pos[k].fulfilledAmt = pos[k].orderAmt
    /\ \E k \in DOMAIN pos : pos[k].customer = External /\ pos[k].fulfilledAmt # Unset
    /\ \E k \in DOMAIN pos :
          /\ pos[k].customer \in Firms /\ pos[k].supplier \in Firms
          /\ pos[k].orderTime >= 0
          /\ 0 < pos[k].fulfilledAmt /\ pos[k].fulfilledAmt < pos[k].orderAmt

\* C4: whenever a firm reaches endOfDay its wipInventory and fgInventory are
\* non-negative, so the negative-inventory check of endOfDay never fires.
C4_InventoryNonNegativeAtEndOfDay ==
    /\ failure # "negInventory"
    /\ phase = "endOfDay" =>
          (firm[agent].wipInventory >= 0 /\ firm[agent].fgInventory >= 0)

\* a firm reaches endOfDay after a period in which it ran out of WIP
C4_Witness ==
    /\ phase = "endOfDay"
    /\ failure = "none"
    /\ firm[agent].wipInventory = 0
    /\ \E id \in Range(firm[agent].productionQueue) : ShortShipped(PoOf(id))

\* C5: in one production phase the WIP consumed equals the finished goods
\* produced equals the sum of the fulfilled amounts of the period's production
\* queue, and endOfDay records that sum in the ledger as WIP used and as
\* finished goods produced.
C5_ProductionConservesUnits ==
    [][/\ (phase = "production" /\ failure = "none" /\ failure' = "none") =>
            LET f == agent
                q == firm'[f].productionQueue
                produced == SumSeq([k \in 1 .. Len(q) |-> pos'[q[k] + 1].fulfilledAmt])
            IN  /\ firm[f].wipInventory - firm'[f].wipInventory = produced
                /\ firm'[f].fgInventory - firm[f].fgInventory = produced
       /\ (phase = "endOfDay" /\ failure = "none" /\ failure' = "none") =>
            LET f == agent
                ti == firm[f].timeIndex
                produced == SumSeq(FulfilledAmts(firm[f].productionQueue))
            IN  /\ firm'[f].ledger[ti][4] = produced
                /\ firm'[f].ledger[ti][10] = produced
                /\ firm'[f].ledger[ti][3] - firm'[f].ledger[ti][5] = produced
                /\ firm'[f].ledger[ti][11] - firm'[f].ledger[ti][7] = produced
      ]_vars

\* a firm has closed a period in which it produced units for a queue of two
\* POs, and the ledger row of that period shows them
C5_Witness ==
    /\ failure = "none"
    /\ \E f \in Firms :
          /\ firm[f].timeIndex > historyTime
          /\ firm[f].ledger[firm[f].timeIndex - 1][4] > 0
          /\ firm[f].ledger[firm[f].timeIndex - 1][10] > 0
          /\ Cardinality({k \in DOMAIN pos :
                            /\ pos[k].supplier = f
                            /\ pos[k].fulfilledTime = firm[f].timePeriod - 1}) = 2

\* C6: production serves the queue in its shuffled order: a PO that fits in
\* the remaining capacity is produced in full, the first PO that does not fit
\* gets exactly the remaining capacity, every PO after it gets 0; the total
\* produced is min(sum of the order amounts, WIP on hand) and at most one PO
\* is partially fulfilled.
C6_ProductionInQueueOrder ==
    [][(phase = "production" /\ failure = "none" /\ failure' = "none") =>
        LET f == agent
            q == firm'[f].productionQueue
            wip == firm[f].wipInventory
            ordered == [k \in 1 .. Len(q) |-> pos'[q[k] + 1].orderAmt]
            given == [k \in 1 .. Len(q) |-> pos'[q[k] + 1].fulfilledAmt]
            remaining(k) == wip - SumSeq(SubSeq(given, 1, k - 1))
            missed(k) == ordered[k] > remaining(k)
        IN  /\ Range(q) = Range(firm[f].productionQueue)
            /\ Len(q) = Len(firm[f].productionQueue)
            /\ \A k \in 1 .. Len(q) :
                  IF \E j \in 1 .. (k - 1) : missed(j)
                  THEN given[k] = 0
                  ELSE IF missed(k)
                       THEN given[k] = remaining(k)
                       ELSE given[k] = ordered[k]
            /\ SumSeq(given) = Min(SumSeq(ordered), wip)
            /\ Cardinality({k \in 1 .. Len(q) :
                              0 < given[k] /\ given[k] < ordered[k]}) <= 1
      ]_vars

\* a production phase has just served a queue of two POs with too little WIP:
\* the first PO got a part of its order and the second got nothing
C6_Witness ==
    /\ phase = "sendShipments"
    /\ failure = "none"
    /\ LET q == firm[agent].productionQueue
       IN  /\ Len(q) = 2
           /\ 0 < PoOf(q[1]).fulfilledAmt
           /\ PoOf(q[1]).fulfilledAmt < PoOf(q[1]).orderAmt
           /\ PoOf(q[2]).orderAmt > 0
           /\ PoOf(q[2]).fulfilledAmt = 0
           /\ q[1] > q[2]

\* C7: once a firm has finished the production phase of period t, every PO
\* ordered from it in period t has supplierClosed = true, fulfilledTime = t
\* and a fulfilledAmount that is set.
C7_PeriodPosClosedAfterProduction ==
    \A k \in DOMAIN pos :
        (/\ pos[k].supplier \in Firms
         /\ pos[k].orderTime = timePeriod
         /\ AfterProduction(pos[k].supplier)) =>
            /\ pos[k].supplierClosed
            /\ pos[k].fulfilledTime = timePeriod
            /\ pos[k].fulfilledAmt # Unset

\* a firm has just finished a production phase that gave a PO of the period
\* nothing at all
C7_Witness ==
    /\ phase = "sendShipments"
    /\ failure = "none"
    /\ \E k \in DOMAIN pos :
          /\ pos[k].supplier = agent
          /\ pos[k].orderTime = timePeriod
          /\ pos[k].orderAmt > 0
          /\ pos[k].fulfilledAmt = 0
          /\ pos[k].supplierClosed

\* C8: a fulfilledAmount that has been set is never changed afterwards, a
\* production queue holds only POs ordered in the current period, and every
\* production queue is empty at every period boundary (for each firm, from
\* its endOfDay to its next actualizeDemand).
C8_NoCarryForward ==
    [][/\ \A k \in DOMAIN pos :
             pos[k].fulfilledAmt # Unset => pos'[k].fulfilledAmt = pos[k].fulfilledAmt
       /\ \A f \in Firms :
             /\ \A id \in Range(firm'[f].productionQueue) :
                   pos'[id + 1].orderTime = timePeriod'
             /\ (\/ phase' \notin AgentPhases
                 \/ agent' > f
                 \/ agent' < f
                 \/ agent' = f /\ phase' \in {"beginningOfDay", "receiveShipments",
                                              "actualizeDemand"}) =>
                   firm'[f].productionQueue = <<>>
      ]_vars

\* a PO short-shipped in an earlier period is still short after its supplier
\* has produced again in a later period
C8_Witness ==
    /\ failure = "none"
    /\ \E k \in DOMAIN pos :
          /\ pos[k].supplier \in Firms
          /\ pos[k].orderTime >= 0
          /\ pos[k].orderTime < timePeriod
          /\ ShortShipped(pos[k])
          /\ AfterProduction(pos[k].supplier)
          /\ firm[pos[k].supplier].ledger[firm[pos[k].supplier].timeIndex][11] > 0

\* C9: for every shipping delay >= 0 a PO shipped to a firm with arrival
\* period a is absorbed by the customer, and closed on the customer side, in
\* the customer's receiveShipments of period a (when a is within the run).
C9_ReceiptAtArrival ==
    \A k \in DOMAIN pos :
        (/\ failure = "none"
         /\ pos[k].customer \in Firms
         /\ pos[k].arrivalTime # Unset
         /\ pos[k].arrivalTime < runTime
         /\ AfterReceive(pos[k].customer, pos[k].arrivalTime)) =>
            pos[k].customerClosed

\* Python's round of num / 2 for num >= 0 (ties go to the even integer)
PyRoundHalf(num) ==
    IF num % 2 = 0 THEN num \div 2
    ELSE IF (num \div 2) % 2 = 0 THEN num \div 2 ELSE (num \div 2) + 1

\* C10 as stated: with smoothingValue = 2, after updateForecast in period t
\* every non-negative actualized demand a and current forecast f give the
\* next slot's forecast round((a + f) / 2).
C10_ForecastIsRoundedMean ==
    (/\ smoothingValue = 2
     /\ failure = "none"
     /\ phase = "supplyOrders") =>
        LET F == firm[agent]
            ti == F.timeIndex
        IN  (ti + 1) \in DOMAIN F.demandForecastArray =>
                F.demandForecastArray[ti + 1] =
                    PyRoundHalf(F.actualizedDemandArray[ti] + F.demandForecastArray[ti])

\* C10 amended: with smoothingValue = 2, after updateForecast in period t
\* every forecast slot the update writes (t+1 .. t+shipDelay, inside the
\* array) holds the mean (a + f) / 2 truncated to an integer, i.e. rounded
\* down for non-negative a and f.
C10_ForecastIsTruncatedMean ==
    (/\ smoothingValue = 2
     /\ failure = "none"
     /\ phase = "supplyOrders") =>
        LET F == firm[agent]
            ti == F.timeIndex
            a == F.actualizedDemandArray[ti]
            f == F.demandForecastArray[ti]
        IN  /\ a >= 0 /\ f >= 0
            /\ \A s \in (ti + 1) .. (ti + shipDelay[agent]) :
                  s \in DOMAIN F.demandForecastArray =>
                      F.demandForecastArray[s] = (a + f) \div 2

\* an update with smoothing 2 has just written a slot from an odd a + f whose
\* half rounds up under round()
C10_Witness ==
    /\ smoothingValue = 2
    /\ failure = "none"
    /\ phase = "supplyOrders"
    /\ shipDelay[agent] >= 1
    /\ LET F == firm[agent]
           n == F.actualizedDemandArray[F.timeIndex] + F.demandForecastArray[F.timeIndex]
       IN  /\ n % 2 = 1
           /\ PyRoundHalf(n) # n \div 2
           /\ F.demandForecastArray[F.timeIndex + 1] = n \div 2

C12_ArrivalIsFulfilledPlusSupplierDelay ==
    \A k \in DOMAIN pos :
        (/\ pos[k].customer \in Firms
         /\ pos[k].supplier \in Firms
         /\ pos[k].arrivalTime # Unset) =>
            pos[k].arrivalTime = pos[k].fulfilledTime + shipDelay[pos[k].supplier]

\* C13: every end-consumer demand PO (customer = -99) has
\* arrivalTime = orderTime in every state from its creation on, also after
\* the retailer has produced and shipped it.
C13_DemandPoArrivesWhenOrdered ==
    \A k \in DOMAIN pos :
        pos[k].customer = External => pos[k].arrivalTime = pos[k].orderTime

\* the demand POs ordered in period t
DemandPosOf(t) ==
    {k \in DOMAIN pos : pos[k].customer = External /\ pos[k].orderTime = t}

\* the retailer has finished its actualizeDemand phase of the current period
RetailerHasActualized ==
    \/ phase \in {"cleanActivePoList", "advanceTime"}
    \/ /\ phase \in AgentPhases
       /\ \/ agent > 0
          \/ phase \notin {"beginningOfDay", "receiveShipments", "actualizeDemand"}

ShocksOn(q) == {i \in DOMAIN shocks : q <= shocks[i][1][1] \div shocks[i][1][2]
                                       /\ shocks[i][1][1] \div shocks[i][1][2] <= q}

\* demandMu + trunc(demandMu * c) for row i of the schedule
ShockedDemand(i) ==
    LET c == shocks[i][2]
        prod == demandMu * c[1]
    IN  demandMu + (IF prod >= 0 THEN prod \div c[2] ELSE -((-prod) \div c[2]))

\* the demand PO of period q carries amount d, and so does the retailer's
\* record of period q once it has actualized
DemandOfPeriodIs(q, d) ==
    /\ \A k \in DemandPosOf(q) : pos[k].orderAmt = d
    /\ (q < timePeriod \/ (q = timePeriod /\ RetailerHasActualized))
          => firm[0].actualizedDemandArray[historyTime + q] = d

SameReturns(a, b) ==
    /\ Len(a) = Len(b)
    /\ \A k \in 1 .. Len(a) : a[k][1] * b[k][2] = b[k][1] * a[k][2]

\* the window column of supplier s (1 or 2) as the wholesaler reads it
WindowColumn(s) ==
    Column(windowRows(returnBySupplierForCalc, returnBySupplier), s)

\* C17: under historicalReturnRule = 3, a window update that processes a
\* prior period in which the wholesaler sent no order to supplier s leaves
\* the window column of s unchanged, and no other step changes the window,
\* so the column is unchanged across consecutive zero-order periods.
C17_ZeroOrderKeepsWindowColumn ==
    [][historicalReturnRuleOption = 3 =>
         \A s \in 1 .. 2 :
            LET before == WindowColumn(s)
                after == WindowColumn(s)'
                update == /\ phase = "beginningOfDay" /\ IsWholesaler(agent)
                          /\ failure = "none" /\ timePeriod >= 1
            IN  /\ (update /\ ordersBySupplier[timeIndex - 1][s] = 0)
                      => SameReturns(before, after)
                /\ (phase # "beginningOfDay" \/ ~IsWholesaler(agent))
                      => SameReturns(before, after)]_vars

\* the wholesaler has just updated the window in period 4; it sent no order
\* to its second supplier in the three periods before but ordered from the
\* first one, and the second supplier's column still shows a full return
C17_Witness ==
    /\ historicalReturnRuleOption = 3
    /\ failure = "none"
    /\ timePeriod = 4
    /\ phase = "receiveShipments"
    /\ IsWholesaler(agent)
    /\ \A d \in 1 .. 3 : ordersBySupplier[timeIndex - d][2] = 0
    /\ \E d \in 1 .. 3 : ordersBySupplier[timeIndex - d][1] > 0
    /\ ~returnBySupplierForCalc.view
    /\ \E k \in 1 .. numTimePeriodsForCalc : WindowColumn(2)[k] = <<1, 1>>
    /\ \E k \in 1 .. numTimePeriodsForCalc : WindowColumn(2)[k][1] = 0

\* the supply POs the wholesaler placed during the run
WholesalerRunPos ==
    {k \in DOMAIN pos : pos[k].customer = 1 /\ pos[k].orderTime >= 0}

\* C18: in Default allocation mode the wholesaler's portfolio weights equal
\* the configured static weights in every state of the run, and every supply
\* order is split with exactly those weights (each supplier's PO carries the
\* truncated share of the period's total order).
C18_DefaultWeightsAreStatic ==
    wholesalerProfileOption = "Default" =>
        /\ portfolioWeights = wholesalerProfile
        /\ \A k \in WholesalerRunPos :
              LET total == firm[1].ledger[historyTime + pos[k].orderTime][6]
                  w == wholesalerProfile[pos[k].supplier - 1]
                  share == (total * w[1]) \div w[2]
              IN  /\ pos[k].supplier \in {2, 3}
                  /\ total > 0
                  /\ pos[k].orderAmt = share

\* the wholesaler has ordered in both periods of the run, one of the orders
\* an odd total split evenly
C18_Witness ==
    /\ wholesalerProfileOption = "Default"
    /\ failure = "none"
    /\ phase = "done"
    /\ \E k \in WholesalerRunPos : pos[k].orderTime = 0 /\ pos[k].orderAmt > 0
    /\ \E k \in WholesalerRunPos :
          /\ pos[k].orderTime = 1
          /\ wholesalerProfile[pos[k].supplier - 1] = <<1, 2>>
          /\ firm[1].ledger[historyTime + 1][6] % 2 = 1
          /\ 2 * pos[k].orderAmt + 1 = firm[1].ledger[historyTime + 1][6]

\* C20: for every run length the configuration accepts (runTime >= 0) the
\* run executes exactly runTime periods and then terminates: no exception
\* ends it, and it never stops with fewer than runTime periods completed.
C20_RunsExactlyRunTimePeriods ==
    /\ failure = "none"
    /\ timePeriod <= runTime
    /\ phase = "done" => timePeriod = runTime

\* a new run is about to start on firms that have been reset
StartsAfterReset ==
    iteration > 0 /\ timePeriod = 0 /\ phase = "createDemandPO"

\* C21: a run executed after resetFirms and the initialization of a new
\* Simulation starts from the state of freshly constructed firms: every
\* firm's fields, and the wholesaler's weights and its order, fulfilment and
\* return series, equal their configured/seeded initial values.
C21_ResetRestoresInitialState ==
    StartsAfterReset =>
        /\ firm = [f \in Firms |->
                     initializeAgent(f, shipDelay, alpha, wholesalerProfile,
                        createHistoricalPos(shipDelay, wholesalerProfile,
                                            wholesalerProfile))]
        /\ portfolioWeights = wholesalerProfile
        /\ ordersBySupplier = InitOrdersBySupplier(wholesalerProfile)
        /\ fulfilledBySupplier = InitFulfilledBySupplier(wholesalerProfile)
        /\ returnBySupplier = InitReturnBySupplier

\* C22: recording a fulfilment with an amount greater than the PO's
\* orderAmount fails and leaves fulfilledAmount and fulfilledTime unchanged:
\* a step after which the run has not failed has changed those fields of a
\* PO only to an amount within the order.
C22_ExcessFulfilmentRejected ==
    [][\A k \in DOMAIN pos :
          \/ pos'[k].fulfilledAmt <= pos[k].orderAmt /\ failure' = "none"
          \/ /\ pos'[k].fulfilledAmt = pos[k].fulfilledAmt
             /\ pos'[k].fulfilledTime = pos[k].fulfilledTime]_vars

\* C23: every shock period of an accepted schedule lies in 0 .. runTime - 1,
\* and applying the schedule never addresses a demand slot outside the run.
C23_AcceptedShocksWithinHorizon ==
    /\ \A i \in DOMAIN shocks :
          /\ shocks[i][1][1] >= 0
          /\ shocks[i][1][1] <= (runTime - 1) * shocks[i][1][2]
    /\ failure # "shockIndex"

\* C24: at orderSupplies in period t the expected sales during the shipping
\* delay are the sum of the forecasts of the shipDelay - 1 periods
\* t+1 .. t+shipDelay-1 that follow the current one, the slots updateForecast
\* has just written.
C24_SalesDuringDelayFollowCurrentPeriod ==
    (phase = "supplyOrders" /\ failure = "none") =>
        LET F == firm[agent]
            d == shipDelay[agent]
        IN  calculateSalesDuringDelay(agent) =
                SumSeq([k \in 1 .. (d - 1) |->
                          F.demandForecastArray[F.timeIndex + k]])

\* C25: updateForecast in period t leaves the new forecast in every slot of
\* the forecast array from t+1 through t+shipDelay+1 (inclusive) that exists,
\* changes no slot at or before t, and writes nowhere outside the array.
C25_ForecastWrittenThroughDelayPlusOne ==
    [][(phase = "updateForecast" /\ failure = "none") =>
        LET f == agent
            ti == firm[f].timeIndex
            old == firm[f].demandForecastArray
            new == firm'[f].demandForecastArray
            newDemand == calculateFutureDemand(smoothingValue,
                            firm[f].actualizedDemandArray[ti], old[ti])
        IN  /\ DOMAIN new = DOMAIN old
            /\ \A s \in DOMAIN old :
                  /\ s \in (ti + 1) .. (ti + shipDelay[f] + 1) => new[s] = newDemand
                  /\ s <= ti => new[s] = old[s]
      ]_vars

\* the POs firm f counts in calculateSupplyInTransit
CountedInTransit(f) ==
    {k \in DOMAIN pos : /\ pos[k].id \in Range(firm[f].poList)
                        /\ pos[k].arrivalTime > firm[f].timePeriod
                        /\ ~pos[k].customerClosed}

\* the POs shipped to firm f (arrivalTime stamped) and not received by it
ShippedNotReceived(f) ==
    {k \in DOMAIN pos : /\ pos[k].customer = f
                        /\ pos[k].arrivalTime # Unset
                        /\ ~pos[k].customerClosed}

RECURSIVE SumFulfilled(_)
SumFulfilled(S) ==
    IF S = {} THEN 0
    ELSE LET k == CHOOSE x \in S : TRUE
         IN  pos[k].fulfilledAmt + SumFulfilled(S \ {k})

\* C26: whenever a firm computes supplyInTransit, every PO it counts has its
\* fulfilledAmt set by the supplier (never the unset sentinel), so the sum is
\* not negative, and it equals the units shipped to the firm and not yet
\* received.
C26_SupplyInTransitIsShippedNotReceived ==
    (phase = "supplyOrders" /\ failure = "none") =>
        /\ \A k \in CountedInTransit(agent) :
              pos[k].fulfilledAmt # Unset /\ pos[k].fulfilledAmt >= 0
        /\ calculateSupplyInTransit(agent) >= 0
        /\ calculateSupplyInTransit(agent) = SumFulfilled(ShippedNotReceived(agent))

\* supplier s has run actualizeDemand of period t
HasActualized(s, t) ==
    \/ firm[s].timePeriod > t
    \/ /\ firm[s].timePeriod = t
       /\ agent = s
       /\ phase \in {"production", "sendShipments", "updateForecast",
                     "supplyOrders", "endOfDay"}

\* the supply POs of the run: ordered by a firm from a firm in a period >= 0
RunSupplyPos ==
    {k \in DOMAIN pos : /\ pos[k].customer \in Firms
                        /\ pos[k].supplier \in Firms
                        /\ pos[k].orderTime >= 0}

\* how often id occurs in the sequence q
Occurrences(id, q) == Cardinality({i \in DOMAIN q : q[i] = id})

RECURSIVE SumOrdered(_)
SumOrdered(S) ==
    IF S = {} THEN 0
    ELSE LET k == CHOOSE x \in S : TRUE
         IN  pos[k].orderAmt + SumOrdered(S \ {k})

\* C27: every supply PO a firm creates in period t reaches its supplier in
\* period t and exactly once: it is among the supplier's customer orders
\* (open or closed) once from the supplier's actualizeDemand of period t on
\* and not before, and the supplier's actualized demand of period t is the
\* total of the orders addressed to it in period t.
C27_SupplyPoReachesSupplierSamePeriodOnce ==
    failure = "none" =>
        \A k \in RunSupplyPos :
            LET s == pos[k].supplier
                t == pos[k].orderTime
                received == firm[s].customerPoList \o firm[s].closedCustomerPos
            IN  IF HasActualized(s, t)
                THEN /\ Occurrences(pos[k].id, received) = 1
                     /\ firm[s].actualizedDemandArray[historyTime + t] =
                            SumOrdered({j \in DOMAIN pos :
                                          /\ pos[j].supplier = s
                                          /\ pos[j].orderTime = t})
                ELSE /\ Occurrences(pos[k].id, received) = 0
                     /\ Occurrences(pos[k].id, firm[s].productionQueue) = 0

\* both manufacturers have taken in a positive order the wholesaler placed in
\* period 1, and the period is over
C27_Witness ==
    /\ failure = "none"
    /\ phase = "done"
    /\ \A s \in {2, 3} :
          \E k \in RunSupplyPos :
              /\ pos[k].supplier = s
              /\ pos[k].orderTime = 1
              /\ pos[k].orderAmt > 0
              /\ Occurrences(pos[k].id, firm[s].customerPoList \o firm[s].closedCustomerPos) = 1

\* the local active lists of firm f
LocalLists(f) == Range(firm[f].poList) \cup Range(firm[f].customerPoList)

\* a supply PO that is due (t + d <= runTime - 1) is not yet in the closed
\* registry, or is still in a local list of its customer or supplier although
\* period t + d + 1 exists
DuePoPending ==
    \E k \in RunSupplyPos :
        LET a == pos[k].orderTime + shipDelay[pos[k].supplier]
        IN  /\ a <= runTime - 1
            /\ ~(/\ pos[k].closed
                 /\ pos[k].id \in Range(closedPoList)
                 /\ a + 1 <= runTime - 1 =>
                       pos[k].id \notin LocalLists(pos[k].customer)
                                        \cup LocalLists(pos[k].supplier))

\* C28, as a liveness property: with every shipDelay >= 1, every supply PO
\* created in period t whose supplier has delay d, with t + d <= runTime - 1,
\* comes to be in the closed registry, and out of both firms' local lists when
\* period t + d + 1 exists, and stays so.
C28_DuePoEventuallyClosed ==
    <>[]((\A f \in Firms : shipDelay[f] >= 1) => ~DuePoPending)

\* the consumer-demand POs of the run
RunDemandPos == {k \in DOMAIN pos : pos[k].customer = External /\ pos[k].orderTime >= 0}

\* all five firms have finished their protocol of period t
AllFirmsDone(t) == \A f \in Firms : firm[f].timePeriod > t

\* the registry sweep of period t has run
Swept(t) ==
    \/ timePeriod > t
    \/ timePeriod = t /\ phase = "advanceTime"

\* C29 as stated: the consumer-demand PO of period t has customerClosed =
\* false until all five firms have finished their protocol of period t, is
\* customer-closed then, and is moved to the closed registry by the sweep of
\* that period.
C29_DemandPoOpenUntilAllFirmsDone ==
    failure = "none" =>
        \A k \in RunDemandPos :
            LET t == pos[k].orderTime
            IN  /\ pos[k].customerClosed <=> AllFirmsDone(t)
                /\ Swept(t) => /\ pos[k].closed
                               /\ Occurrences(pos[k].id, closedPoList) = 1
                               /\ Occurrences(pos[k].id, activePoList) = 0

\* C29 amended: the consumer-demand PO of period t has customerClosed =
\* false until the retailer, the first firm of the loop, has finished its
\* endOfDay of period t; it is customer-closed from then on, while the other
\* four firms run their protocol of period t, and the sweep of that period
\* moves it to the closed registry.
C29_DemandPoOpenUntilRetailerDone ==
    failure = "none" =>
        \A k \in RunDemandPos :
            LET t == pos[k].orderTime
            IN  /\ pos[k].customerClosed <=> firm[0].timePeriod > t
                /\ Swept(t) => /\ pos[k].closed
                               /\ Occurrences(pos[k].id, closedPoList) = 1
                               /\ Occurrences(pos[k].id, activePoList) = 0
                /\ ~Swept(t) => /\ ~pos[k].closed
                                /\ Occurrences(pos[k].id, activePoList) = 1

\* a manufacturer is at work in period 1 while the demand PO of that period,
\* for a positive amount, is already customer-closed and still in the active
\* registry, and the demand PO of period 0 is in the closed one
C29_Witness ==
    /\ failure = "none"
    /\ timePeriod = 1
    /\ agent = 2
    /\ phase = "production"
    /\ \E k \in RunDemandPos :
          /\ pos[k].orderTime = 1
          /\ pos[k].orderAmt > 0
          /\ pos[k].customerClosed
          /\ ~pos[k].closed
          /\ pos[k].id \in Range(activePoList)
    /\ \E k \in RunDemandPos :
          /\ pos[k].orderTime = 0
          /\ pos[k].closed
          /\ pos[k].id \in Range(closedPoList)

\* the indexes up to idx of the periods in which the wholesaler ordered from
\* supplier s (1 or 2)
OrderedPeriods(s, idx) == {r \in 0 .. idx : ordersBySupplier[r][s] # 0}

\* the n largest elements of S, ascending
RECURSIVE LastOf(_, _)
LastOf(S, n) ==
    IF n = 0 \/ S = {} THEN <<>>
    ELSE LET m == CHOOSE x \in S : \A y \in S : y <= x
         IN  Append(LastOf(S \ {m}, n - 1), m)

\* C30: under historicalReturnRule = 3, after every window update the window
\* column of supplier s holds exactly the returns of the most recent
\* returnWindow periods in which the wholesaler sent a non-zero order to s;
\* the return of a zero-order period never enters the window.
C30_WindowHoldsLastOrderedPeriods ==
    (/\ historicalReturnRuleOption = 3
     /\ failure = "none"
     /\ phase = "receiveShipments"
     /\ IsWholesaler(agent)
     /\ timePeriod >= 1) =>
        \A s \in 1 .. 2 :
            LET periods == OrderedPeriods(s, timeIndex - 1)
                last == LastOf(periods, numTimePeriodsForCalc)
            IN  Cardinality(periods) >= numTimePeriodsForCalc =>
                    SameReturns(WindowColumn(s),
                                [k \in 1 .. numTimePeriodsForCalc |->
                                    returnBySupplier[last[k]][s]])

\* the return rules 1 and 2 give a period without an order
zeroOrderReturn == IF historicalReturnRuleOption = 1 THEN <<0, 1>> ELSE <<1, 1>>

C32_SeriesLogThePeriodsOwnPo ==
    [][/\ failure' # "logSupplyPo"
       /\ \A r \in historyTime .. (TotalTime - 1), s \in 1 .. 2 :
             (\/ fulfilledBySupplier'[r][s] # fulfilledBySupplier[r][s]
              \/ ~SameReturns(<<returnBySupplier'[r][s]>>,
                              <<returnBySupplier[r][s]>>)) =>
                \E k \in DOMAIN pos' :
                    /\ pos'[k].customer = 1
                    /\ pos'[k].supplier = s + 1
                    /\ pos'[k].orderTime = r - historyTime
                    /\ fulfilledBySupplier'[r][s] = pos'[k].fulfilledAmt
                    /\ SameReturns(<<returnBySupplier'[r][s]>>,
                                   <<ReturnOf(pos'[k].fulfilledAmt,
                                              ordersBySupplier'[r][s])>>)
      ]_vars

\* the POs the raw-materials firm created during the run
RawMaterialsRunPos ==
    {k \in DOMAIN pos : IsRawMaterials(pos[k].customer) /\ pos[k].orderTime >= 0}

\* C33: every PO the raw-materials firm creates during the run has the external
\* sentinel as supplier, is fulfilled in full in its order period, arrives after
\* the firm's own shipping delay, is closed on the supplier side from its
\* creation on, and is in no firm's production queue.
C33_RawMaterialsPoSelfFulfilled ==
    \A k \in RawMaterialsRunPos :
        /\ pos[k].supplier = External
        /\ pos[k].fulfilledAmt = pos[k].orderAmt
        /\ pos[k].fulfilledTime = pos[k].orderTime
        /\ pos[k].arrivalTime = pos[k].orderTime + shipDelay[pos[k].customer]
        /\ pos[k].supplierClosed
        /\ \A s \in Firms : Occurrences(pos[k].id, firm[s].productionQueue) = 0

\* a raw-materials order of the run with a positive amount, already received
C33_Witness ==
    \E k \in RawMaterialsRunPos :
        /\ pos[k].orderAmt > 0
        /\ pos[k].customerClosed

\* the POs held by the outstanding-order list, the incoming-order list, the
\* production queue or the shipping queue of firm f
HeldBy(f) ==
    Range(firm[f].poList) \cup Range(firm[f].customerPoList)
        \cup Range(firm[f].productionQueue) \cup Range(firm[f].shippingQueue)

\* every PO a firm holds is one record of the registry, listed exactly once in
\* the active or the closed list, and neither list repeats a PO
RegistryConsistent ==
    /\ \A f \in Firms : \A id \in HeldBy(f) :
          /\ id + 1 \in DOMAIN pos
          /\ PoOf(id).id = id
          /\ Occurrences(id, activePoList) + Occurrences(id, closedPoList) = 1
    /\ \A k \in DOMAIN pos :
          Occurrences(pos[k].id, activePoList) + Occurrences(pos[k].id, closedPoList) <= 1

\* C34: every PO referenced by a firm's outstanding-order list, incoming-order
\* list, production queue or shipping queue is one registry record found
\* exactly once in the active or the closed registry; the two registries are
\* disjoint and free of duplicates; and the closed registry only ever grows at
\* its end, so no PO leaves it.
C34_OneRecordOneRegistry ==
    /\ RegistryConsistent
    /\ [][/\ RegistryConsistent'
          /\ Len(closedPoList') >= Len(closedPoList)
          /\ SubSeq(closedPoList', 1, Len(closedPoList)) = closedPoList]_vars

\* a PO the sweep has moved to the closed registry while a firm still holds it
\* in its outstanding-order list, next to a PO held from the active registry
C34_Witness ==
    \E f \in Firms :
        /\ \E id \in Range(firm[f].poList) : id \in Range(closedPoList)
        /\ \E g \in Firms : \E id \in HeldBy(g) : id \in Range(activePoList)

\* the run periods firm f has finished with its endOfDay
PeriodsEnded(f) == 0 .. (firm[f].timePeriod - 1)

\* C35: for every firm and every run period t it has ended, the ledger row of
\* t has ending WIP = beginning WIP + total WIP received - WIP used in
\* production, and the row of t + 1 begins with the ending WIP and the ending
\* FG of the row of t.
C35_LedgerConservationAndContinuity ==
    \A f \in Firms : \A t \in PeriodsEnded(f) :
        LET row == firm[f].ledger[historyTime + t]
        IN  /\ row[5] = row[1] + row[2] - row[4]
            /\ historyTime + t + 1 < TotalTime =>
                  /\ firm[f].ledger[historyTime + t + 1][1] = row[5]
                  /\ firm[f].ledger[historyTime + t + 1][7] = row[13]

\* a firm has ended a period in which it received WIP and used some of it
C35_Witness ==
    \E f \in Firms : \E t \in PeriodsEnded(f) :
        /\ firm[f].ledger[historyTime + t][2] > 0
        /\ firm[f].ledger[historyTime + t][4] > 0
        /\ historyTime + t + 1 < TotalTime

\* firm f stands between two periods: its endOfDay is over and its next
\* beginningOfDay has not started
AtPeriodBoundary(f) ==
    \/ firm[f].timePeriod > timePeriod
    \/ phase \in {"createDemandPO", "done"}

\* C36: between two periods every firm holds no finished goods and its
\* shipping queue is empty, and the ledger row of every ended run period shows
\* total FG shipped = total FG produced and an ending FG inventory of 0.
C36_AllProducedIsShippedSamePeriod ==
    \A f \in Firms :
        /\ AtPeriodBoundary(f) =>
              /\ firm[f].fgInventory = 0
              /\ firm[f].shippingQueue = <<>>
        /\ \A t \in PeriodsEnded(f) :
              /\ firm[f].ledger[historyTime + t][12] = firm[f].ledger[historyTime + t][10]
              /\ firm[f].ledger[historyTime + t][13] = 0

\* a firm has ended a period in which it produced and shipped units
C36_Witness ==
    \E f \in Firms : \E t \in PeriodsEnded(f) :
        /\ AtPeriodBoundary(f)
        /\ firm[f].ledger[historyTime + t][10] > 0
        /\ firm[f].ledger[historyTime + t][12] > 0

\* the orchestrator's period a firm's counters should show: firms that have
\* ended their day are one period ahead until advanceTime catches up
ExpectedFirmPeriod(f) ==
    IF \/ phase \in {"cleanActivePoList", "advanceTime"}
       \/ phase \in AgentPhases /\ f < agent
    THEN timePeriod + 1
    ELSE timePeriod

\* C37: a firm that starts or is within its per-period protocol shows the
\* orchestrator's timePeriod and timeIndex = timePeriod + historyTime; every
\* firm that has ended its day is exactly one period ahead until the
\* orchestrator advances; a firm's counters move only in its own endOfDay, by
\* one, and the orchestrator's only in advanceTime, by one.
C37_ClocksAgree ==
    /\ \A f \in Firms :
          /\ firm[f].timePeriod = ExpectedFirmPeriod(f)
          /\ firm[f].timeIndex = firm[f].timePeriod + historyTime
    /\ timeIndex = timePeriod + historyTime
    /\ [][/\ \A f \in Firms :
               /\ firm'[f].timePeriod = ExpectedFirmPeriod(f)'
               /\ firm'[f].timeIndex = firm'[f].timePeriod + historyTime
               /\ firm'[f].timePeriod # firm[f].timePeriod =>
                     /\ phase = "endOfDay" /\ agent = f
                     /\ firm'[f].timePeriod = firm[f].timePeriod + 1
                     /\ firm'[f].timeIndex = firm[f].timeIndex + 1
          /\ timeIndex' = timePeriod' + historyTime
          /\ timePeriod' # timePeriod =>
                /\ phase = "advanceTime"
                /\ timePeriod' = timePeriod + 1
                /\ \A f \in Firms : firm[f].timePeriod = timePeriod + 1]_vars

\* the last firm starts the protocol of the second period while the
\* orchestrator and every firm have advanced once
C37_Witness ==
    /\ phase = "beginningOfDay"
    /\ agent = NumAgents - 1
    /\ timePeriod = 1
    /\ \A f \in Firms : f < agent => firm[f].timePeriod = 2

\* C38: in every reachable state a PO closed by its customer is closed by its
\* supplier, and no step sets customerClosed or supplierClosed of an existing PO
\* back to false.
C38_SupplierClosesBeforeCustomer ==
    /\ \A k \in DOMAIN pos : pos[k].customerClosed => pos[k].supplierClosed
    /\ [][/\ \A k \in DOMAIN pos' : pos'[k].customerClosed => pos'[k].supplierClosed
          /\ \A k \in DOMAIN pos :
                /\ k \in DOMAIN pos'
                /\ pos[k].customerClosed => pos'[k].customerClosed
                /\ pos[k].supplierClosed => pos'[k].supplierClosed]_vars

\* a PO of the run between two firms that its customer has received
C38_Witness ==
    \E k \in DOMAIN pos :
        /\ pos[k].orderTime >= 0
        /\ pos[k].customer \in Firms
        /\ pos[k].supplier \in Firms
        /\ pos[k].customerClosed
        /\ pos[k].supplierClosed

\* C39: every PO has orderAmount >= 0, whatever demand is drawn and whatever
\* shock schedule the configuration accepted, and the check 'production order
\* cannot be less than 0' of createProductionOrder never fires.
C39_OrderAmountsNeverNegative ==
    /\ \A k \in DOMAIN pos : pos[k].orderAmt >= 0
    /\ failure # "productionOrder"

\* C40: the wholesaler never holds a portfolio whose weights sum to more than
\* 1.01 (a call with such a portfolio raises and installs nothing), and as
\* long as nothing has raised, a call with any portfolio summing to at most
\* 1.01 can be made and installs it.
C40_SetPortfolioRejectsOverweight ==
    /\ ~sumAbove101(portfolioWeights)
    /\ failure = "none" =>
          \A profile \in PortfolioInputs :
              ~sumAbove101(profile) =>
                  ENABLED (/\ SetPortfolio
                           /\ failure' = "none"
                           /\ portfolioWeights' = profile)


====
